---- MODULE Spec2Model ----
(***************************************************************************)
(* DbMan release engine (core/dbman.go): Create, Deploy, Upgrade and Query *)
(* driving a database provider through string envelopes.                   *)
(*                                                                         *)
(* The engine runs one action at a time; every step of the model is one    *)
(* fetch from the script source or one provider call together with the     *)
(* code that interprets its response.  The provider and the script source  *)
(* are the environment: their responses are chosen nondeterministically.   *)
(*                                                                         *)
(* Application versions are numbers: release k of the plan has appVersion  *)
(* k and dbVersion 10 + k; a version outside 1..Len(plan) is one the plan  *)
(* does not list.                                                          *)
(***************************************************************************)
EXTENDS Integers, Sequences, FiniteSets, TLC

\* ---- bounds ----
MaxReleases == 3   \* releases in the plan
MaxCmds     == 2   \* commands listed by manifest.create / manifest.deploy
MaxActions  == 1   \* engine actions run one after the other
MaxAttempts == 5   \* attempts handed to WaitForConnection
MaxLog      == 2   \* lines written to an envelope's log
MaxObjects  == 3   \* objects in the source and target snapshots together

VARIABLES
    plan,          \* Plan.Releases: sequence of Info
    alterDefined,  \* app versions whose manifest defines upgrade.alter
    nCmds,         \* length of the create and deploy command lists
    cfgAppVersion, \* configuration value AppVersion (the target)
    history,       \* version history rows held by the database
    frame,         \* locals and position of the engine action in progress
    calls,         \* provider calls made by the action in progress, in order
    fetches,       \* script source fetches made by the action in progress
    started        \* number of actions started so far

vars == <<plan, alterDefined, nCmds, cfgAppVersion, history, frame, calls,
          fetches, started>>

\* ---- values ----
NoDescription == [text |-> "", from |-> 0, to |-> 0]

\* a nil *Version
NoVersion == [AppVersion |-> -1, DbVersion |-> -1,
              Description |-> NoDescription, Source |-> -1]

\* an empty command name (a slot the manifest leaves empty)
NoName == [slot |-> "", n |-> 0]

NoCmd == [rel |-> -1, slot |-> "", n |-> 0]

NoQuery == [name |-> "", vars |-> <<>>]

AppVersions == 0..MaxReleases

\* keys a caller may supply to a query
ParamKeys == {"a", "b", "c"}

\* ---- plugin.Parameter: the envelope ----
\* error: value["error"] is set; result: value["result"] as a version map
\* (NoVersion when the key is absent or null); flat: the version fields are
\* also present as top level strings of the envelope.
VersionEnvelopes ==
    { [error |-> e, result |-> r, flat |-> f] :
        e \in BOOLEAN,
        r \in {NoVersion} \cup
              (IF history = <<>> THEN {} ELSE {history[Len(history)]}),
        f \in IF history = <<>> THEN {FALSE} ELSE BOOLEAN }

NoEnvelope == [error |-> FALSE, result |-> NoVersion, flat |-> FALSE]

HasErrorNever(r) == FALSE

HasError(r) == r.error

\* the unchecked type assertion on value["result"] panics on a nil interface
GetVersion(r) == [panic |-> r.result = NoVersion, version |-> r.result]

\* the unchecked type assertion on value[key] panics when the key is absent
GetString(r) == [panic |-> ~r.flat]

\* DbMan.getVersion: GetVersion is evaluated before Error
getVersion(r) ==
    [panic |-> GetVersion(r).panic,
     version |-> GetVersion(r).version,
     err |-> HasError(r)]

\* responses of runCommand / runQuery: an envelope with or without an error,
\* or a text that is no envelope (FromJSON's error is dropped and the value
\* map stays empty)
Responses == {"ok", "error", "garbage"}

ResponseEnvelope(resp) ==
    [error |-> resp = "error", result |-> NoVersion, flat |-> FALSE]

\* ---- manifest model and script source ----
CommandNames(slot, n) == [j \in 1..n |-> [slot |-> slot, n |-> j]]

QueryVars == <<[FromInput |-> "a"], [FromInput |-> ""]>>

Manifest(appVer) ==
    [AppVersion |-> appVer,
     DbVersion  |-> 10 + appVer,
     Create     |-> [Commands |-> CommandNames("create", nCmds)],
     Deploy     |-> [Commands |-> CommandNames("deploy", nCmds)],
     Upgrade    |-> [Prepare |-> [slot |-> "prepare", n |-> 1],
                     Alter   |-> IF appVer \in alterDefined
                                 THEN [slot |-> "alter", n |-> 1]
                                 ELSE NoName,
                     Deploy  |-> [slot |-> "updeploy", n |-> 1]],
     Queries    |-> <<[name |-> "q", vars |-> QueryVars]>>]

RECURSIVE GetCommands(_, _)
GetCommands(m, names) ==
    IF names = <<>> THEN <<>>
    ELSE (IF Head(names) = NoName THEN <<>>
          ELSE <<[rel |-> m.AppVersion, slot |-> Head(names).slot,
                  n |-> Head(names).n]>>)
         \o GetCommands(m, Tail(names))

GetQuery(m, name) ==
    IF \E j \in 1..Len(m.Queries) : m.Queries[j].name = name
    THEN m.Queries[CHOOSE j \in 1..Len(m.Queries) : m.Queries[j].name = name]
    ELSE NoQuery

IndexOf(p, appVer) ==
    IF \E j \in 1..Len(p) : p[j].AppVersion = appVer
    THEN CHOOSE j \in 1..Len(p) : p[j].AppVersion = appVer
    ELSE 0

getUpgradeWindow(p, current, target) ==
    [currentIx |-> IndexOf(p, current), targetIx |-> IndexOf(p, target)]

\* ---- call and fetch records ----
Call(op, cmd, ver, resp) == [op |-> op, cmd |-> cmd, ver |-> ver, resp |-> resp]

Fetch(what, appVer, ok) == [what |-> what, appVersion |-> appVer, ok |-> ok]

\* ---- engine frame ----
Idle ==
    [action |-> "none", pc |-> "idle", outcome |-> "none",
     env |-> NoEnvelope, version |-> NoVersion,
     currentIx |-> 0, targetIx |-> 0, i |-> 0,
     manifest |-> 0, stage |-> "none", cmds |-> <<>>, k |-> 0,
     qname |-> "", params |-> {},
     attempts |-> 0, attempt |-> 0, connected |-> FALSE, errorMsg |-> ""]

Return(f, out) == [f EXCEPT !.pc = "done", !.outcome = out]

\* ---- DbMan.runCommands and the Upgrade loop, as functions of the frame ----
IsCurrentReleaseAlways(i, currentIx) == TRUE

\* "run the prepare to upgrade scripts only on the release being upgraded"
IsCurrentRelease(i, currentIx) == i = currentIx

IsTargetReleaseNever(i, targetIx) == FALSE

\* "run the deploy objects commands only on the target release"
IsTargetRelease(i, targetIx) == i = targetIx

\* the loop header: i++ and the test i <= targetIx
NextRelease(f) ==
    IF f.i + 1 <= f.targetIx
    THEN [f EXCEPT !.i = f.i + 1, !.pc = "fetchManifest"]
    ELSE Return([f EXCEPT !.i = f.i + 1], "ok")

RECURSIVE runCommands(_, _, _)
RECURSIVE AfterBatch(_)

\* what Upgrade does after the alter step of a release other than the current
AfterAlter(f) ==
    IF IsTargetRelease(f.i, f.targetIx)
    THEN runCommands(f,
             GetCommands(Manifest(f.manifest),
                         <<Manifest(f.manifest).Upgrade.Deploy>>),
             "updeploy")
    ELSE [f EXCEPT !.stage = "alter", !.pc = "setVersion"]

AfterBatchCreateWritesRow(f) ==
    CASE f.stage = "create"   -> [f EXCEPT !.stage = "deploy",
                                           !.pc = "setVersion"]
      [] f.stage = "deploy"   -> [f EXCEPT !.pc = "setVersion"]
      [] f.stage = "prepare"  -> NextRelease(f)
      [] f.stage = "alter"    -> AfterAlter(f)
      [] f.stage = "updeploy" -> [f EXCEPT !.pc = "setVersion"]

\* the code that follows a runCommands call that returned no error
AfterBatch(f) ==
    CASE f.stage = "create"   -> Return(f, "ok")
      [] f.stage = "deploy"   -> [f EXCEPT !.pc = "setVersion"]
      [] f.stage = "prepare"  -> NextRelease(f)
      [] f.stage = "alter"    -> AfterAlter(f)
      [] f.stage = "updeploy" -> [f EXCEPT !.pc = "setVersion"]

\* entry of runCommands: with no command both loops are skipped
runCommands(f, cmds, stage) ==
    IF cmds = <<>>
    THEN AfterBatch([f EXCEPT !.stage = stage, !.cmds = cmds])
    ELSE [f EXCEPT !.stage = stage, !.cmds = cmds, !.k = 1,
                   !.pc = "fetchContent"]

UpgradeReleaseRowPerAlter(f) ==
    IF IsCurrentRelease(f.i, f.currentIx)
    THEN runCommands(f,
             GetCommands(Manifest(f.manifest),
                         <<Manifest(f.manifest).Upgrade.Prepare>>),
             "prepare")
    ELSE IF Manifest(f.manifest).Upgrade.Alter # NoName
         THEN runCommands(f,
                  GetCommands(Manifest(f.manifest),
                              <<Manifest(f.manifest).Upgrade.Alter>>),
                  "alter")
         ELSE IF IsTargetRelease(f.i, f.targetIx)
              THEN AfterAlter(f)
              ELSE NextRelease(f)

\* the body of the Upgrade loop once the manifest of release i is fetched
UpgradeRelease(f) ==
    IF IsCurrentRelease(f.i, f.currentIx)
    THEN runCommands(f,
             GetCommands(Manifest(f.manifest),
                         <<Manifest(f.manifest).Upgrade.Prepare>>),
             "prepare")
    ELSE IF Manifest(f.manifest).Upgrade.Alter # NoName
         THEN runCommands(f,
                  GetCommands(Manifest(f.manifest),
                              <<Manifest(f.manifest).Upgrade.Alter>>),
                  "alter")
         ELSE AfterAlter(f)

SameVersionNever(targetAppVer, version) == FALSE

\* "if the target version matches the current installed version"
SameVersion(targetAppVer, version) == targetAppVer = version.AppVersion

WindowInvalidStrict(currentIx, targetIx) == targetIx < currentIx

\* "check if an upgrade is possible"
WindowInvalid(currentIx, targetIx) == targetIx <= currentIx

\* the version row each stage hands to setDbVersion
VersionRow(f) ==
    CASE f.stage = "deploy" ->
           [AppVersion  |-> cfgAppVersion,
            DbVersion   |-> Manifest(f.manifest).DbVersion,
            Description |-> [text |-> "Created database version", from |-> 0,
                             to |-> Manifest(f.manifest).DbVersion],
            Source      |-> f.manifest]
      [] f.stage = "updeploy" ->
           [AppVersion  |-> cfgAppVersion,
            DbVersion   |-> Manifest(f.manifest).DbVersion,
            Description |-> [text |-> "Upgraded database from version",
                             from |-> f.version.DbVersion,
                             to |-> Manifest(f.manifest).DbVersion],
            Source      |-> plan[f.i].Path]
      [] f.stage = "alter" ->
           [AppVersion  |-> plan[f.i].AppVersion,
            DbVersion   |-> Manifest(f.manifest).DbVersion,
            Description |-> [text |-> "Updated database schema only to version",
                             from |-> 0,
                             to |-> Manifest(f.manifest).DbVersion],
            Source      |-> plan[f.i].Path]

\* ---- initial states ----
Init ==
    /\ \E n \in 0..MaxReleases :
          /\ plan = [j \in 1..n |->
                        [AppVersion |-> j, DbVersion |-> 10 + j, Path |-> j]]
          /\ alterDefined \in SUBSET (1..n)
    /\ nCmds \in 0..MaxCmds
    /\ cfgAppVersion \in AppVersions
    /\ history \in {<<>>} \cup
          { <<[AppVersion  |-> a,
               DbVersion   |-> 10 + a,
               Description |-> [text |-> "Created database version",
                                from |-> 0, to |-> 10 + a],
               Source      |-> a]>> : a \in AppVersions }
    /\ frame = Idle
    /\ calls = <<>>
    /\ fetches = <<>>
    /\ started = 0

\* ---- starting an action ----
FirstStepSkipsVersion(action) == "fetchManifest"

\* the first statement of each action that touches the provider or the source
FirstStep(action) ==
    IF action = "Query" THEN "fetchManifest" ELSE "getVersion"

CanStart == frame.pc \in {"idle", "done"} /\ started < MaxActions

Start(action) ==
    /\ CanStart
    /\ action \in {"Create", "Deploy", "Upgrade"}
    /\ frame' = [Idle EXCEPT !.action = action, !.pc = FirstStep(action)]
    /\ calls' = <<>>
    /\ fetches' = <<>>
    /\ started' = started + 1
    /\ UNCHANGED <<plan, alterDefined, nCmds, cfgAppVersion, history>>

StartCreate == Start("Create")

StartDeploy == Start("Deploy")

StartUpgrade == Start("Upgrade")

StartQuery ==
    /\ CanStart
    /\ \E name \in {"q", "missing"}, params \in SUBSET ParamKeys :
          frame' = [Idle EXCEPT !.action = "Query",
                                !.pc = FirstStep("Query"),
                                !.qname = name, !.params = params]
    /\ calls' = <<>>
    /\ fetches' = <<>>
    /\ started' = started + 1
    /\ UNCHANGED <<plan, alterDefined, nCmds, cfgAppVersion, history>>

\* ---- Create ----
CreateAfterVersionUnchecked(f, r) == [f EXCEPT !.env = r, !.pc = "fetchManifest"]

CreateAfterVersion(f, r) ==
    IF ~HasError(r)
    THEN IF GetVersion(r).panic
         THEN Return([f EXCEPT !.env = r], "panic")
         ELSE IF GetVersion(r).version # NoVersion
              THEN Return([f EXCEPT !.env = r,
                                    !.version = GetVersion(r).version],
                          "AlreadyExists")
              ELSE [f EXCEPT !.env = r, !.pc = "fetchManifest"]
    ELSE [f EXCEPT !.env = r, !.pc = "fetchManifest"]

CreateGetVersion ==
    /\ frame.action = "Create" /\ frame.pc = "getVersion"
    /\ \E r \in VersionEnvelopes :
          /\ calls' = Append(calls, Call("getVersion", NoCmd, NoVersion,
                                IF r.error THEN "error" ELSE "ok"))
          /\ frame' = CreateAfterVersion(frame, r)
    /\ UNCHANGED <<plan, alterDefined, nCmds, cfgAppVersion, history, fetches,
                   started>>

\* fetchManifest can succeed only for a release the source holds
ManifestExists(appVer) == IndexOf(plan, appVer) # 0

CreateFetchManifest ==
    /\ frame.action = "Create" /\ frame.pc = "fetchManifest"
    /\ \E ok \in BOOLEAN :
          /\ ok => ManifestExists(cfgAppVersion)
          /\ fetches' = Append(fetches, Fetch("manifest", cfgAppVersion, ok))
          /\ frame' =
               IF ~ok THEN Return(frame, "FetchError")
               ELSE runCommands([frame EXCEPT !.manifest = cfgAppVersion],
                        GetCommands(Manifest(cfgAppVersion),
                                    Manifest(cfgAppVersion).Create.Commands),
                        "create")
    /\ UNCHANGED <<plan, alterDefined, nCmds, cfgAppVersion, history, calls,
                   started>>

\* ---- Deploy ----
DeployAfterVersion(f, r) ==
    IF ~HasError(r)
    THEN IF GetString(r).panic
         THEN Return([f EXCEPT !.env = r], "panic")
         ELSE Return([f EXCEPT !.env = r], "AlreadyExists")
    ELSE [f EXCEPT !.env = r, !.pc = "fetchManifest"]

DeployGetVersion ==
    /\ frame.action = "Deploy" /\ frame.pc = "getVersion"
    /\ \E r \in VersionEnvelopes :
          /\ calls' = Append(calls, Call("getVersion", NoCmd, NoVersion,
                                IF r.error THEN "error" ELSE "ok"))
          /\ frame' = DeployAfterVersion(frame, r)
    /\ UNCHANGED <<plan, alterDefined, nCmds, cfgAppVersion, history, fetches,
                   started>>

DeployFetchManifest ==
    /\ frame.action = "Deploy" /\ frame.pc = "fetchManifest"
    /\ \E ok \in BOOLEAN :
          /\ ok => ManifestExists(cfgAppVersion)
          /\ fetches' = Append(fetches, Fetch("manifest", cfgAppVersion, ok))
          /\ frame' =
               IF ~ok THEN Return(frame, "FetchError")
               ELSE runCommands([frame EXCEPT !.manifest = cfgAppVersion],
                        GetCommands(Manifest(cfgAppVersion),
                                    Manifest(cfgAppVersion).Deploy.Commands),
                        "deploy")
    /\ UNCHANGED <<plan, alterDefined, nCmds, cfgAppVersion, history, calls,
                   started>>

\* ---- Upgrade ----
UpgradeAfterVersion(f, r) ==
    IF getVersion(r).panic
    THEN Return([f EXCEPT !.env = r], "panic")
    ELSE IF getVersion(r).err
         THEN Return([f EXCEPT !.env = r], "ProviderError")
         ELSE IF getVersion(r).version = NoVersion
              THEN Return([f EXCEPT !.env = r], "NotDeployed")
              ELSE [f EXCEPT !.env = r, !.version = getVersion(r).version,
                             !.pc = "fetchPlan"]

UpgradeGetVersion ==
    /\ frame.action = "Upgrade" /\ frame.pc = "getVersion"
    /\ \E r \in VersionEnvelopes :
          /\ calls' = Append(calls, Call("getVersion", NoCmd, NoVersion,
                                IF r.error THEN "error" ELSE "ok"))
          /\ frame' = UpgradeAfterVersion(frame, r)
    /\ UNCHANGED <<plan, alterDefined, nCmds, cfgAppVersion, history, fetches,
                   started>>

\* the code between GetReleasePlan and the loop
UpgradeAfterPlan(f) ==
    IF SameVersion(cfgAppVersion, f.version)
    THEN Return(f, "ok")
    ELSE LET w == getUpgradeWindow(plan, f.version.AppVersion, cfgAppVersion)
             g == [f EXCEPT !.currentIx = w.currentIx,
                            !.targetIx = w.targetIx]
         IN  IF WindowInvalid(w.currentIx, w.targetIx)
             THEN Return(g, "InvalidUpgrade")
             ELSE IF w.currentIx <= w.targetIx
                  THEN [g EXCEPT !.i = w.currentIx, !.pc = "fetchManifest"]
                  ELSE Return([g EXCEPT !.i = w.currentIx], "ok")

UpgradeFetchPlan ==
    /\ frame.action = "Upgrade" /\ frame.pc = "fetchPlan"
    /\ \E ok \in BOOLEAN :
          /\ fetches' = Append(fetches, Fetch("plan", cfgAppVersion, ok))
          /\ frame' = IF ~ok THEN Return(frame, "FetchError")
                      ELSE UpgradeAfterPlan(frame)
    /\ UNCHANGED <<plan, alterDefined, nCmds, cfgAppVersion, history, calls,
                   started>>

\* plan.Releases[i-1] with an index outside the slice panics
UpgradeIndexPanic ==
    /\ frame.action = "Upgrade" /\ frame.pc = "fetchManifest"
    /\ frame.i \notin 1..Len(plan)
    /\ frame' = Return(frame, "panic")
    /\ UNCHANGED <<plan, alterDefined, nCmds, cfgAppVersion, history, calls,
                   fetches, started>>

UpgradeFetchManifest ==
    /\ frame.action = "Upgrade" /\ frame.pc = "fetchManifest"
    /\ frame.i \in 1..Len(plan)
    /\ \E ok \in BOOLEAN :
          /\ fetches' = Append(fetches,
                            Fetch("manifest", plan[frame.i].AppVersion, ok))
          /\ frame' =
               IF ~ok THEN Return(frame, "FetchError")
               ELSE UpgradeRelease(
                        [frame EXCEPT !.manifest = plan[frame.i].AppVersion])
    /\ UNCHANGED <<plan, alterDefined, nCmds, cfgAppVersion, history, calls,
                   started>>

\* ---- DbMan.runCommands: first loop, one fetchCommandContent per command ----
FetchedContentErrorDropped(f, ok) ==
    IF f.k < Len(f.cmds)
    THEN [f EXCEPT !.k = f.k + 1]
    ELSE [f EXCEPT !.k = 1, !.pc = "runCommand"]

\* the first loop after one fetchCommandContent: an error returns at once with
\* the log still empty, else the next command, and after the last command the
\* second loop
FetchedContent(f, ok) ==
    IF ~ok THEN Return(f, "FetchError")
    ELSE IF f.k < Len(f.cmds)
         THEN [f EXCEPT !.k = f.k + 1]
         ELSE [f EXCEPT !.k = 1, !.pc = "runCommand"]

FetchContent ==
    /\ frame.pc = "fetchContent"
    /\ \E ok \in BOOLEAN :
          /\ fetches' = Append(fetches, Fetch("command", cfgAppVersion, ok))
          /\ frame' = FetchedContent(frame, ok)
    /\ UNCHANGED <<plan, alterDefined, nCmds, cfgAppVersion, history, calls,
                   started>>

CommandAtReversed(cmds, k) == cmds[Len(cmds) + 1 - k]

\* the k-th command the second loop ranges over
CommandAt(cmds, k) == cmds[k]

\* ---- DbMan.runCommands: second loop, one RunCommand per command ----
RunCommand ==
    /\ frame.pc = "runCommand"
    /\ \E resp \in Responses :
          /\ calls' = Append(calls, Call("runCommand", CommandAt(frame.cmds, frame.k),
                                         NoVersion, resp))
          /\ frame' =
               IF HasError(ResponseEnvelope(resp))
               THEN Return(frame, "ProviderError")
               ELSE IF frame.k < Len(frame.cmds)
                    THEN [frame EXCEPT !.k = frame.k + 1]
                    ELSE AfterBatch(frame)
    /\ UNCHANGED <<plan, alterDefined, nCmds, cfgAppVersion, history, fetches,
                   started>>

\* ---- DbMan.setDbVersion and the code after it in Deploy and Upgrade ----
AfterSetVersion(f, r) ==
    IF f.action = "Deploy"
    THEN Return(f, IF HasError(r) THEN "ProviderError" ELSE "ok")
    ELSE IF HasError(r) THEN Return(f, "ProviderError")
         ELSE NextRelease(f)

SetVersion ==
    /\ frame.pc = "setVersion"
    /\ \E resp \in {"ok", "error"} :
          /\ calls' = Append(calls, Call("setVersion", NoCmd,
                                         VersionRow(frame), resp))
          /\ history' = IF resp = "ok"
                        THEN Append(history, VersionRow(frame))
                        ELSE history
          /\ frame' = AfterSetVersion(frame, ResponseEnvelope(resp))
    /\ UNCHANGED <<plan, alterDefined, nCmds, cfgAppVersion, fetches, started>>

\* ---- Query ----
QueryAfterManifestCountOnly(f) ==
    LET query == GetQuery(Manifest(cfgAppVersion), f.qname)
    IN  IF query = NoQuery THEN Return(f, "QueryNotFound")
        ELSE IF Len(query.vars) # Cardinality(f.params)
             THEN Return(f, "Validation")
             ELSE [f EXCEPT !.manifest = cfgAppVersion, !.pc = "fetchQuery"]

QueryAfterManifest(f) ==
    LET query == GetQuery(Manifest(cfgAppVersion), f.qname)
    IN  IF query = NoQuery THEN Return(f, "QueryNotFound")
        ELSE IF Len(query.vars) # Cardinality(f.params)
             THEN Return(f, "Validation")
             ELSE IF \E j \in 1..Len(query.vars) :
                        /\ query.vars[j].FromInput # ""
                        /\ query.vars[j].FromInput \notin f.params
                  THEN Return(f, "Validation")
                  ELSE [f EXCEPT !.manifest = cfgAppVersion,
                                 !.pc = "fetchQuery"]

QueryFetchManifest ==
    /\ frame.action = "Query" /\ frame.pc = "fetchManifest"
    /\ \E ok \in BOOLEAN :
          /\ ok => ManifestExists(cfgAppVersion)
          /\ fetches' = Append(fetches, Fetch("manifest", cfgAppVersion, ok))
          /\ frame' = IF ~ok THEN Return(frame, "FetchError")
                      ELSE QueryAfterManifest(frame)
    /\ UNCHANGED <<plan, alterDefined, nCmds, cfgAppVersion, history, calls,
                   started>>

QueryFetchContent ==
    /\ frame.action = "Query" /\ frame.pc = "fetchQuery"
    /\ \E ok \in BOOLEAN :
          /\ fetches' = Append(fetches, Fetch("query", cfgAppVersion, ok))
          /\ frame' = IF ~ok THEN Return(frame, "FetchError")
                      ELSE [frame EXCEPT !.pc = "runQuery"]
    /\ UNCHANGED <<plan, alterDefined, nCmds, cfgAppVersion, history, calls,
                   started>>

RunQuery ==
    /\ frame.action = "Query" /\ frame.pc = "runQuery"
    /\ \E resp \in Responses :
          /\ calls' = Append(calls, Call("runQuery", NoCmd, NoVersion, resp))
          /\ frame' = Return(frame,
                         IF HasError(ResponseEnvelope(resp))
                         THEN "ProviderError" ELSE "ok")
    /\ UNCHANGED <<plan, alterDefined, nCmds, cfgAppVersion, history, fetches,
                   started>>

\* ---- specification ----
Next ==
    \/ StartCreate
    \/ StartDeploy
    \/ StartUpgrade
    \/ StartQuery
    \/ CreateGetVersion
    \/ CreateFetchManifest
    \/ DeployGetVersion
    \/ DeployFetchManifest
    \/ UpgradeGetVersion
    \/ UpgradeFetchPlan
    \/ UpgradeIndexPanic
    \/ UpgradeFetchManifest
    \/ FetchContent
    \/ RunCommand
    \/ SetVersion
    \/ QueryFetchManifest
    \/ QueryFetchContent
    \/ RunQuery

Spec == Init /\ [][Next]_vars

TypeOK ==
    /\ frame.pc \in {"idle", "getVersion", "fetchPlan", "fetchManifest",
                     "fetchContent", "runCommand", "setVersion", "fetchQuery",
                     "runQuery", "done"}
    /\ frame.outcome \in {"none", "ok", "panic", "AlreadyExists",
                          "NotDeployed", "InvalidUpgrade", "ProviderError",
                          "FetchError", "QueryNotFound", "Validation"}
    /\ started \in 0..MaxActions

\* ---- vocabulary of the properties ----
RunOrSet(cs) == { j \in 1..Len(cs) : cs[j].op \in {"runCommand", "setVersion"} }

\* the envelope of the action's getVersion call has arrived
VersionAnswered == Len(calls) >= 1 /\ calls[1].op = "getVersion"

\* getVersion reported a version: no error and a result
VersionPresent == VersionAnswered /\ ~frame.env.error /\ frame.env.result # NoVersion

\* getVersion yielded no version: an error envelope, or no result
VersionAbsent == VersionAnswered /\ (frame.env.error \/ frame.env.result = NoVersion)

PlanFetched == \E j \in 1..Len(fetches) : fetches[j].what = "plan" /\ fetches[j].ok

Tag(op, cmd, app) == [op |-> op, cmd |-> cmd, app |-> app]

Tags(cs) == [j \in 1..Len(cs) |-> Tag(cs[j].op, cs[j].cmd, cs[j].ver.AppVersion)]

AlterTag(a) ==
    IF a \in alterDefined
    THEN <<Tag("runCommand", [rel |-> a, slot |-> "alter", n |-> 1], -1)>>
    ELSE <<>>

\* the calls the upgrade of releases i..t contributes, c being the current one
RECURSIVE ExpectedFrom(_, _, _)
ExpectedFrom(i, c, t) ==
    IF i > t THEN <<>>
    ELSE (IF i = c
          THEN <<Tag("runCommand",
                     [rel |-> plan[i].AppVersion, slot |-> "prepare", n |-> 1],
                     -1)>>
          ELSE IF i < t
               THEN AlterTag(plan[i].AppVersion)
                    \o <<Tag("setVersion", NoCmd, plan[i].AppVersion)>>
               ELSE AlterTag(plan[i].AppVersion)
                    \o <<Tag("runCommand",
                             [rel |-> plan[i].AppVersion, slot |-> "updeploy",
                              n |-> 1], -1),
                         Tag("setVersion", NoCmd, plan[i].AppVersion)>>)
         \o ExpectedFrom(i + 1, c, t)

ExpectedUpgradeCalls(c, t) ==
    <<Tag("getVersion", NoCmd, -1)>> \o ExpectedFrom(c, c, t)

\* C1: a successful Upgrade from plan index c to plan index t > c makes
\* exactly the calls getVersion, prepare of c, then alter (when defined) and
\* setVersion for every release between, then alter (when defined), deploy
\* and setVersion for t, in this order.
UpgradeCallOrder ==
    LET c == IndexOf(plan, frame.version.AppVersion)
        t == IndexOf(plan, cfgAppVersion)
    IN  (/\ frame.action = "Upgrade"
         /\ frame.pc = "done"
         /\ frame.outcome = "ok"
         /\ cfgAppVersion # frame.version.AppVersion)
        => /\ c >= 1
           /\ t > c
           /\ Tags(calls) = ExpectedUpgradeCalls(c, t)

UpgradeCallOrderWitness ==
    /\ frame.action = "Upgrade"
    /\ frame.pc = "done"
    /\ frame.outcome = "ok"
    /\ IndexOf(plan, cfgAppVersion)
         >= IndexOf(plan, frame.version.AppVersion) + 2
    /\ IndexOf(plan, frame.version.AppVersion) >= 1
    /\ Len(calls) >= 6

\* the commands of the stage that a version row records
StageCommands(row) ==
    CASE row.Description.text = "Created database version" ->
           { [rel |-> row.AppVersion, slot |-> "deploy", n |-> j] :
                j \in 1..nCmds }
      [] row.Description.text = "Updated database schema only to version" ->
           IF row.AppVersion \in alterDefined
           THEN { [rel |-> row.AppVersion, slot |-> "alter", n |-> 1] }
           ELSE {}
      [] row.Description.text = "Upgraded database from version" ->
           { [rel |-> row.AppVersion, slot |-> "updeploy", n |-> 1] }
           \cup (IF row.AppVersion \in alterDefined
                 THEN { [rel |-> row.AppVersion, slot |-> "alter", n |-> 1] }
                 ELSE {})
      [] OTHER -> {}

\* C2: a setVersion call comes only after every command of the stage its row
\* records has run without an error, and after a runCommand that returned an
\* error envelope the action calls setVersion no more.
SetVersionAfterCleanBatch ==
    \A j \in 1..Len(calls) :
        calls[j].op = "setVersion" =>
            /\ \A m \in 1..(j - 1) :
                  calls[m].op = "runCommand" => calls[m].resp # "error"
            /\ \A c \in StageCommands(calls[j].ver) :
                  \E m \in 1..(j - 1) :
                      /\ calls[m].op = "runCommand"
                      /\ calls[m].cmd = c
                      /\ calls[m].resp # "error"

SetVersionAfterCleanBatchWitness ==
    /\ frame.action = "Upgrade"
    /\ frame.pc = "done"
    /\ \E j \in 1..Len(calls) :
          /\ calls[j].op = "setVersion"
          /\ StageCommands(calls[j].ver) # {}
    /\ calls[Len(calls)].op = "runCommand"
    /\ calls[Len(calls)].resp = "error"

RunCalls == SelectSeq(calls, LAMBDA c : c.op = "runCommand")

BatchOf(action) ==
    IF action = "Create"
    THEN GetCommands(Manifest(cfgAppVersion),
                     Manifest(cfgAppVersion).Create.Commands)
    ELSE GetCommands(Manifest(cfgAppVersion),
                     Manifest(cfgAppVersion).Deploy.Commands)

\* C3: the commands of a batch run in the order the manifest lists them; the
\* first runCommand answered with an error is the last provider call of the
\* action, which returns that error.
BatchOrderAndAbort ==
    /\ frame.action \in {"Create", "Deploy"} =>
          /\ Len(RunCalls) <= Len(BatchOf(frame.action))
          /\ \A j \in 1..Len(RunCalls) :
                RunCalls[j].cmd = BatchOf(frame.action)[j]
    /\ \A j \in 1..Len(calls) :
          (calls[j].op = "runCommand" /\ calls[j].resp = "error") =>
              /\ j = Len(calls)
              /\ frame.pc = "done"
              /\ frame.outcome = "ProviderError"

BatchOrderAndAbortWitness ==
    /\ frame.action = "Create"
    /\ Len(calls) = 3
    /\ calls[2].op = "runCommand" /\ calls[2].resp = "ok"
    /\ calls[3].op = "runCommand" /\ calls[3].resp = "error"
    /\ frame.pc = "done"

\* C4: when the version read has the target's appVersion, Upgrade makes no
\* runCommand and no setVersion call, and with the plan fetched it succeeds.
NoOpUpgrade ==
    (/\ frame.action = "Upgrade"
     /\ VersionPresent
     /\ frame.env.result.AppVersion = cfgAppVersion)
    => /\ RunOrSet(calls) = {}
       /\ PlanFetched => (frame.pc = "done" /\ frame.outcome = "ok")

NoOpUpgradeWitness ==
    /\ frame.action = "Upgrade"
    /\ VersionPresent
    /\ frame.env.result.AppVersion = cfgAppVersion
    /\ PlanFetched
    /\ Len(plan) >= 2
    /\ frame.pc = "done"

WindowNotForward ==
    getUpgradeWindow(plan, frame.env.result.AppVersion, cfgAppVersion).targetIx
      <= getUpgradeWindow(plan, frame.env.result.AppVersion,
                          cfgAppVersion).currentIx

\* C5 as stated, for a current and a target version the plan lists: whenever
\* the window has targetIx <= currentIx, Upgrade fails with InvalidUpgrade
\* and makes no runCommand and no setVersion call.
InvalidWindowAlwaysFails ==
    (/\ frame.action = "Upgrade"
     /\ VersionPresent
     /\ PlanFetched
     /\ IndexOf(plan, cfgAppVersion) >= 1
     /\ IndexOf(plan, frame.env.result.AppVersion) >= 1
     /\ WindowNotForward)
    => /\ frame.pc = "done"
       /\ frame.outcome = "InvalidUpgrade"
       /\ RunOrSet(calls) = {}

\* C5 (amended): whenever the window has targetIx <= currentIx and the target
\* differs from the current appVersion, Upgrade fails with InvalidUpgrade and
\* makes no runCommand and no setVersion call.
InvalidWindowFails ==
    (/\ frame.action = "Upgrade"
     /\ VersionPresent
     /\ PlanFetched
     /\ WindowNotForward
     /\ frame.env.result.AppVersion # cfgAppVersion)
    => /\ frame.pc = "done"
       /\ frame.outcome = "InvalidUpgrade"
       /\ RunOrSet(calls) = {}

InvalidWindowFailsWitness ==
    /\ frame.action = "Upgrade"
    /\ frame.outcome = "InvalidUpgrade"
    /\ IndexOf(plan, cfgAppVersion) >= 1
    /\ IndexOf(plan, cfgAppVersion) < IndexOf(plan, frame.env.result.AppVersion)

\* C6: when getVersion yields no version, Upgrade returns an error to its
\* caller (NotDeployed) and makes no runCommand and no setVersion call.
UpgradeNotDeployed ==
    (frame.action = "Upgrade" /\ VersionAbsent)
    => /\ frame.pc = "done"
       /\ frame.outcome \in {"NotDeployed", "ProviderError"}
       /\ RunOrSet(calls) = {}

\* C7: with a version reported, Create fails with AlreadyExists having made
\* no fetch and no call but getVersion; Create never calls setVersion.
CreateRefusesExisting ==
    frame.action = "Create" =>
        /\ \A j \in 1..Len(calls) : calls[j].op # "setVersion"
        /\ VersionPresent =>
              /\ frame.pc = "done"
              /\ frame.outcome = "AlreadyExists"
              /\ fetches = <<>>
              /\ Len(calls) = 1

CreateRefusesExistingWitness ==
    /\ frame.action = "Create"
    /\ VersionPresent
    /\ frame.outcome = "AlreadyExists"

\* C8: whenever getVersion yields no version, by an error envelope or by an
\* envelope with neither error nor result, Create goes on to the manifest's
\* create commands.
CreateProceedsWithoutVersion ==
    (frame.action = "Create" /\ VersionAbsent)
    => frame.outcome \notin {"panic", "AlreadyExists"}

\* C9: Deploy returns AlreadyExists, with no call but getVersion, when a
\* version is reported, and goes on to the deploy commands when none is.
DeployRefusedIffVersion ==
    frame.action = "Deploy" =>
        /\ VersionPresent =>
              /\ frame.pc = "done"
              /\ frame.outcome = "AlreadyExists"
              /\ Len(calls) = 1
        /\ VersionAbsent => frame.outcome \notin {"panic", "AlreadyExists"}

\* C10 as stated: the first provider call of Create, Deploy, Upgrade and
\* Query is getVersion.
EveryActionOpensWithGetVersion ==
    (frame.action \in {"Create", "Deploy", "Upgrade", "Query"} /\ calls # <<>>)
    => calls[1].op = "getVersion"

\* C10 (amended): the first provider call of Create, Deploy and Upgrade is
\* getVersion, made once; Query calls nothing but runQuery.
ActionsOpenWithGetVersion ==
    /\ (frame.action \in {"Create", "Deploy", "Upgrade"} /\ calls # <<>>)
       => /\ calls[1].op = "getVersion"
          /\ \A j \in 2..Len(calls) : calls[j].op # "getVersion"
    /\ frame.action = "Query"
       => \A j \in 1..Len(calls) : calls[j].op = "runQuery"

ActionsOpenWithGetVersionWitness ==
    /\ frame.action = "Deploy"
    /\ Len(calls) >= 3
    /\ calls[Len(calls)].op = "setVersion"

\* ---- version rows written by an Upgrade ----
SetCalls == SelectSeq(calls, LAMBDA c : c.op = "setVersion")

AlterCalls == SelectSeq(calls, LAMBDA c : c.op = "runCommand" /\ c.cmd.slot = "alter")

UpgradeSucceeded ==
    /\ frame.action = "Upgrade"
    /\ frame.pc = "done"
    /\ frame.outcome = "ok"
    /\ cfgAppVersion # frame.version.AppVersion

\* C11 as stated: after a successful Upgrade the number of setVersion calls
\* is the number of upgrade.alter commands executed plus one.
RowPerAlterPlusOne ==
    UpgradeSucceeded => Len(SetCalls) = Len(AlterCalls) + 1

\* C11 (amended): after a successful Upgrade from plan index c to t there is
\* one setVersion call for every release after c up to t, whether or not the
\* release defines upgrade.alter: t - c calls, the j-th for release c + j.
RowPerReleaseAfterCurrent ==
    LET c == IndexOf(plan, frame.version.AppVersion)
        t == IndexOf(plan, cfgAppVersion)
    IN  UpgradeSucceeded =>
           /\ Len(SetCalls) = t - c
           /\ \A j \in 1..Len(SetCalls) :
                 SetCalls[j].ver.AppVersion = plan[c + j].AppVersion

RowPerReleaseAfterCurrentWitness ==
    /\ UpgradeSucceeded
    /\ Len(SetCalls) >= 2
    /\ Len(AlterCalls) = 0

\* ---- Create, then Deploy, then Upgrade on a database with no version ----
Scenario == <<"Create", "Deploy", "Upgrade">>

InitSeq ==
    /\ \E n \in 0..MaxReleases :
          /\ plan = [j \in 1..n |->
                        [AppVersion |-> j, DbVersion |-> 10 + j, Path |-> j]]
          /\ alterDefined \in SUBSET (1..n)
    /\ nCmds \in 0..MaxCmds
    /\ cfgAppVersion \in AppVersions
    /\ history = <<>>
    /\ frame = Idle
    /\ calls = <<>>
    /\ fetches = <<>>
    /\ started = 0

\* the next action of the scenario starts once the one before it succeeded
SeqStart ==
    /\ started < Len(Scenario)
    /\ \/ frame.pc = "idle"
       \/ frame.pc = "done" /\ frame.outcome = "ok"
    /\ frame' = [Idle EXCEPT !.action = Scenario[started + 1],
                             !.pc = FirstStep(Scenario[started + 1])]
    /\ calls' = <<>>
    /\ fetches' = <<>>
    /\ started' = started + 1
    /\ UNCHANGED <<plan, alterDefined, nCmds, cfgAppVersion, history>>

\* Deploy alone, with nothing before it and nothing after it
SeqStartDeployAlone ==
    /\ started = 0
    /\ frame.pc = "idle"
    /\ frame' = [Idle EXCEPT !.action = "Deploy", !.pc = FirstStep("Deploy")]
    /\ calls' = <<>>
    /\ fetches' = <<>>
    /\ started' = Len(Scenario)
    /\ UNCHANGED <<plan, alterDefined, nCmds, cfgAppVersion, history>>

NextSeq ==
    \/ SeqStart
    \/ SeqStartDeployAlone
    \/ CreateGetVersion
    \/ CreateFetchManifest
    \/ DeployGetVersion
    \/ DeployFetchManifest
    \/ UpgradeGetVersion
    \/ UpgradeFetchPlan
    \/ FetchContent
    \/ RunCommand
    \/ SetVersion

SpecSeq == InitSeq /\ [][NextSeq]_vars

DeployRow ==
    [AppVersion  |-> cfgAppVersion,
     DbVersion   |-> 10 + cfgAppVersion,
     Description |-> [text |-> "Created database version", from |-> 0,
                      to |-> 10 + cfgAppVersion],
     Source      |-> cfgAppVersion]

\* C12: on a database with no version, Create, Deploy and Upgrade (target
\* equal to the deployed version), each succeeding, leave the history that a
\* successful Deploy alone leaves: the single row of the deployment.
SequenceLeavesDeployRow ==
    /\ (frame.action = "Deploy" /\ frame.pc = "done" /\ frame.outcome = "ok")
          => history = <<DeployRow>>
    /\ (frame.action = "Upgrade" /\ frame.pc = "done" /\ frame.outcome = "ok")
          => history = <<DeployRow>>
    /\ frame.action = "Create" => history = <<>>

SequenceLeavesDeployRowWitness ==
    /\ started = Len(Scenario)
    /\ frame.action = "Upgrade"
    /\ frame.pc = "done"
    /\ frame.outcome = "ok"
    /\ history = <<DeployRow>>
    /\ nCmds >= 1

\* ---- Query parameters ----
DeclaredVars == GetQuery(Manifest(cfgAppVersion), frame.qname).vars

ParamsMatch ==
    /\ Cardinality(frame.params) = Len(DeclaredVars)
    /\ \A j \in 1..Len(DeclaredVars) :
          DeclaredVars[j].FromInput # "" =>
              DeclaredVars[j].FromInput \in frame.params

\* C13: Query reaches runQuery only with as many parameters as the query
\* declares vars and with every fromInput key supplied; otherwise it returns
\* an error and has made no provider call.
QueryValidatesParams ==
    frame.action = "Query" =>
        /\ (calls # <<>> \/ frame.pc = "runQuery") => ParamsMatch
        /\ ~ParamsMatch =>
              /\ calls = <<>>
              /\ frame.pc = "done" => frame.outcome \notin {"ok", "none"}

QueryValidatesParamsWitness ==
    /\ frame.action = "Query"
    /\ frame.qname = "q"
    /\ Cardinality(frame.params) = Len(DeclaredVars)
    /\ ~ParamsMatch
    /\ frame.pc = "done"
    /\ frame.outcome = "Validation"

\* ---- DbMan.WaitForConnection ----
\* the "test connection" command: no scripts
TestConnCmd == [rel |-> -1, slot |-> "test connection", n |-> 0]

\* envelopes a probe can be answered with: no error, or one of two errors
ProbeEnvelopes ==
    { [error |-> FALSE, msg |-> "ok"],
      [error |-> TRUE, msg |-> "refused"],
      [error |-> TRUE, msg |-> "timeout"] }

WaitContinuesInclusive(attempt, attempts) == attempt <= attempts

\* the loop test of WaitForConnection
WaitContinues(attempt, attempts) == attempt < attempts

\* the code after the loop
WaitReturn(f) == Return(f, IF ~f.connected THEN "ConnectError" ELSE "ok")

WaitLoop(f) ==
    IF WaitContinues(f.attempt, f.attempts)
    THEN [f EXCEPT !.pc = "probe"]
    ELSE WaitReturn(f)

InitWait ==
    /\ plan = <<>>
    /\ alterDefined = {}
    /\ nCmds = 0
    /\ cfgAppVersion = 0
    /\ history = <<>>
    /\ frame = Idle
    /\ calls = <<>>
    /\ fetches = <<>>
    /\ started = 0

StartWait ==
    /\ frame.pc = "idle"
    /\ \E attempts \in 0..MaxAttempts :
          frame' = WaitLoop([Idle EXCEPT !.action = "WaitForConnection",
                                         !.attempts = attempts])
    /\ calls' = <<>>
    /\ fetches' = <<>>
    /\ started' = started + 1
    /\ UNCHANGED <<plan, alterDefined, nCmds, cfgAppVersion, history>>

\* one pass of the loop: the probe, then sleep and continue, or break
Probe ==
    /\ frame.action = "WaitForConnection" /\ frame.pc = "probe"
    /\ \E r \in ProbeEnvelopes :
          /\ calls' = Append(calls, Call("runCommand", TestConnCmd, NoVersion,
                                         r.msg))
          /\ frame' =
               IF HasError(r)
               THEN WaitLoop([frame EXCEPT !.errorMsg = r.msg,
                                           !.attempt = frame.attempt + 1])
               ELSE WaitReturn([frame EXCEPT !.connected = TRUE])
    /\ UNCHANGED <<plan, alterDefined, nCmds, cfgAppVersion, history, fetches,
                   started>>

NextWait == StartWait \/ Probe

\* a probe is a synchronous provider call that returns, and the sleep ends
SpecWait == InitWait /\ [][NextWait]_vars /\ WF_vars(NextWait)

ProbeFailed(c) == c.resp # "ok"

WaitSafe ==
    frame.action = "WaitForConnection" =>
        /\ Len(calls) <= frame.attempts
        /\ frame.pc = "probe" => Len(calls) < frame.attempts
        /\ \A j \in 1..(Len(calls) - 1) : ProbeFailed(calls[j])
        /\ frame.pc = "done" =>
              IF calls # <<>> /\ ~ProbeFailed(calls[Len(calls)])
              THEN frame.outcome = "ok"
              ELSE /\ frame.outcome = "ConnectError"
                   /\ Len(calls) = frame.attempts
                   /\ frame.errorMsg = IF calls = <<>> THEN ""
                                       ELSE calls[Len(calls)].resp

\* C14: WaitForConnection makes at most `attempts` probes, stops with success
\* at the first probe answered without an error, returns an error carrying
\* the last probe's error when all `attempts` probes fail, and terminates.
WaitForConnectionBounded == [](WaitSafe) /\ <>(frame.pc = "done")

WaitForConnectionBoundedWitness ==
    /\ frame.action = "WaitForConnection"
    /\ frame.pc = "done"
    /\ frame.outcome = "ConnectError"
    /\ frame.attempts >= 2
    /\ calls[1].resp # calls[2].resp
    /\ frame.errorMsg = calls[Len(calls)].resp

\* ---- plugin.Parameter: Log, ToString, FromJSON ----
\* strings are sequences of characters; a map is a function from its keys
NoValue == [k \in {} |-> <<>>]

NewParameter == [value |-> NoValue, log |-> <<>>]

Messages == { <<"a">>, <<"\\", "n">> }
ResultStrings == { <<"r">>, <<"\n">> }
ErrorStrings == { <<"e">> }

\* Parameter.Set, SetErrorFromMessage
Set(r, key, val) == [r EXCEPT !.value = (key :> val) @@ r.value]

\* Parameter.Log: the message and a line feed go to the buffer
Log(r, message) == [r EXCEPT !.log = r.log \o message \o <<"\n">>]

\* encoding/json writes a string with line feed and backslash escaped
RECURSIVE Escape(_)
Escape(str) ==
    IF str = <<>> THEN <<>>
    ELSE (CASE Head(str) = "\n" -> <<"\\", "n">>
            [] Head(str) = "\\" -> <<"\\", "\\">>
            [] OTHER -> <<Head(str)>>) \o Escape(Tail(str))

RECURSIVE Unescape(_)
Unescape(str) ==
    IF str = <<>> THEN <<>>
    ELSE IF Head(str) = "\\" /\ Len(str) >= 2
         THEN (IF str[2] = "n" THEN <<"\n">> ELSE <<str[2]>>)
              \o Unescape(SubSeq(str, 3, Len(str)))
         ELSE <<Head(str)>> \o Unescape(Tail(str))

\* json.Marshal of a map: its members in key order
KeyOrder == <<"error", "log", "result">>

Marshal(value) ==
    LET keys == SelectSeq(KeyOrder, LAMBDA k : k \in DOMAIN value)
    IN  [i \in 1..Len(keys) |-> [key |-> keys[i], str |-> Escape(value[keys[i]])]]

\* json.Unmarshal into a fresh map
Unmarshal(text) ==
    [k \in {text[i].key : i \in DOMAIN text} |->
        Unescape(text[CHOOSE i \in DOMAIN text : text[i].key = k].str)]

\* Parameter.ToString: the buffer overwrites value["log"], then Marshal
ParameterToString(r) ==
    LET r2 == Set(r, "log", r.log)
    IN  [r |-> r2, text |-> Marshal(r2.value)]

\* NewParameterFromJSON / Parameter.FromJSON: only the map is filled
FromJSON(jsonString) == [value |-> Unmarshal(jsonString), log |-> <<>>]

InitEnvelope ==
    /\ plan = <<>>
    /\ alterDefined = {}
    /\ nCmds = 0
    /\ cfgAppVersion = 0
    /\ history = <<>>
    /\ calls = <<>>
    /\ fetches = <<>>
    /\ started = 0
    /\ frame = [pc |-> "build", e |-> NewParameter, lines |-> 0,
                text |-> <<>>, parsed |-> NewParameter, again |-> <<>>]

EnvelopeUnchanged ==
    UNCHANGED <<plan, alterDefined, nCmds, cfgAppVersion, history, calls,
                fetches, started>>

EnvelopeSetResult ==
    /\ frame.pc = "build" /\ "result" \notin DOMAIN frame.e.value
    /\ \E val \in ResultStrings :
          frame' = [frame EXCEPT !.e = Set(frame.e, "result", val)]
    /\ EnvelopeUnchanged

EnvelopeSetError ==
    /\ frame.pc = "build" /\ "error" \notin DOMAIN frame.e.value
    /\ \E val \in ErrorStrings :
          frame' = [frame EXCEPT !.e = Set(frame.e, "error", val)]
    /\ EnvelopeUnchanged

EnvelopeLog ==
    /\ frame.pc = "build" /\ frame.lines < MaxLog
    /\ \E message \in Messages :
          frame' = [frame EXCEPT !.e = Log(frame.e, message),
                                 !.lines = frame.lines + 1]
    /\ EnvelopeUnchanged

EnvelopeToString ==
    /\ frame.pc = "build"
    /\ LET out == ParameterToString(frame.e)
       IN  frame' = [frame EXCEPT !.e = out.r, !.text = out.text,
                                  !.pc = "serialised"]
    /\ EnvelopeUnchanged

EnvelopeFromJSON ==
    /\ frame.pc = "serialised"
    /\ frame' = [frame EXCEPT !.parsed = FromJSON(frame.text), !.pc = "parsed"]
    /\ EnvelopeUnchanged

EnvelopeToStringAgain ==
    /\ frame.pc = "parsed"
    /\ LET out == ParameterToString(frame.parsed)
       IN  frame' = [frame EXCEPT !.parsed = out.r, !.again = out.text,
                                  !.pc = "serialisedAgain"]
    /\ EnvelopeUnchanged

NextEnvelope ==
    \/ EnvelopeSetResult
    \/ EnvelopeSetError
    \/ EnvelopeLog
    \/ EnvelopeToString
    \/ EnvelopeFromJSON
    \/ EnvelopeToStringAgain

SpecEnvelope == InitEnvelope /\ [][NextEnvelope]_vars

\* the parsed envelope holds the result, error and log that were serialised
ParsedKeepsValue ==
    frame.pc = "parsed" => frame.parsed.value = frame.e.value

\* C15: parsing the text of an envelope gives an envelope equal to it in
\* result, error and log, and serialising the parsed envelope again gives
\* the same text.
RoundTripIsIdentity ==
    /\ ParsedKeepsValue
    /\ frame.pc = "serialisedAgain" =>
          /\ frame.parsed.value = frame.e.value
          /\ frame.again = frame.text

\* ---- diff: DatabaseSchema ----
\* a Go map is a function from the keys it holds; a nil *string is <<>>
Nil == <<>>
Some(v) == <<v>>

\* all maps with keys among K and the value of key k in V(k)
Maps(K, V(_)) ==
    UNION { { f \in [D -> UNION {V(k) : k \in D}] : \A k \in D : f[k] \in V(k) }
            : D \in SUBSET K }

\* every order in which the elements of S can be met (map iteration)
Perms(S) ==
    { p \in [1..Cardinality(S) -> S] :
        \A i, j \in 1..Cardinality(S) : i # j => p[i] # p[j] }

Range(seq) == { seq[i] : i \in DOMAIN seq }

TableKeys == {"t1", "t2"}
ColumnKeys == [t1 |-> {"c1"}, t2 |-> {"c2"}]
OrdinalPositions == [c1 |-> 1, c2 |-> 2]

Column(name, dataType, isNullable, defaultValue) ==
    [Name |-> name, DataType |-> dataType, IsNullable |-> isNullable,
     DefaultValue |-> defaultValue, OrdinalPosition |-> OrdinalPositions[name]]

\* c1 comes in shapes that differ in one, two or all three of type,
\* nullability and default
Columns(name) ==
    IF name = "c1"
    THEN { Column(name, "int", TRUE, Nil),
           Column(name, "text", TRUE, Nil),
           Column(name, "int", FALSE, Nil),
           Column(name, "text", FALSE, Some("0")) }
    ELSE { Column(name, "int", TRUE, Nil) }

Tables(key) == [Name : {key}, Columns : Maps(ColumnKeys[key], Columns)]

Enums(key) == [Name : {key}, Values : {<<"x">>, <<"x", "y">>, <<"y", "z">>}]

Functions(key) == [Name : {key}, Definition : {"body1", "body2"}]

Views(key) == [Name : {key}, Definition : {"select1", "select2"}]

Indexes(key) ==
    [Name : {key}, IsPrimary : BOOLEAN, Definition : {"ON t1 (c1)"}]

Constraints(key) ==
    [Name : {key}, TableName : {"t1"}, Definition : {"CHECK"}]

Sequences(key) == [Name : {key}, StartValue : {1}, Increment : {1}]

Triggers(key) ==
    [Name : {key}, TableName : {"t1"}, Definition : {"BEFORE INSERT"}]

Classes ==
    {"Tables", "Sequences", "Enums", "Functions", "Indexes", "Constraints",
     "Views", "Triggers"}

EmptySchema == [c \in Classes |-> [k \in {} |-> <<>>]]

\* objects held by a snapshot
Size(schema) ==
    Cardinality(DOMAIN schema.Tables) + Cardinality(DOMAIN schema.Sequences)
    + Cardinality(DOMAIN schema.Enums) + Cardinality(DOMAIN schema.Functions)
    + Cardinality(DOMAIN schema.Indexes)
    + Cardinality(DOMAIN schema.Constraints)
    + Cardinality(DOMAIN schema.Views) + Cardinality(DOMAIN schema.Triggers)

SchemaProduct ==
    [Tables : Maps(TableKeys, Tables),
     Sequences : Maps({"s1"}, Sequences),
     Enums : Maps({"e1"}, Enums),
     Functions : Maps({"f1"}, Functions),
     Indexes : Maps({"i1"}, Indexes),
     Constraints : Maps({"k1", "k2"}, Constraints),
     Views : Maps({"v1"}, Views),
     Triggers : Maps({"g1"}, Triggers)]

\* the snapshots that hold at most MaxObjects objects
DatabaseSchemas == { s : s \in { x \in SchemaProduct : Size(x) <= MaxObjects } }

\* the snapshots, by the number of objects they hold
SchemasOfSize == [n \in 0..MaxObjects |-> { s \in DatabaseSchemas : Size(s) = n }]

\* ---- diff: Comparator ----
compareNullableStringsNilSource(a, b) ==
    IF a = Nil THEN TRUE
    ELSE IF b = Nil THEN FALSE
    ELSE a[1] = b[1]

compareNullableStrings(a, b) ==
    IF a = Nil /\ b = Nil THEN TRUE
    ELSE IF a = Nil \/ b = Nil THEN FALSE
    ELSE a[1] = b[1]

compareColumnsAlways(source, target) ==
    Some([Name |-> target.Name,
          OldColumn |-> source,
          NewColumn |-> target,
          TypeChanged |-> source.DataType # target.DataType,
          NullableChanged |-> source.IsNullable # target.IsNullable,
          DefaultChanged |-> source.DefaultValue # target.DefaultValue])

\* Nil when no flag is set, else the ColumnDiff
compareColumns(source, target) ==
    LET diff == [Name |-> target.Name,
                 OldColumn |-> source,
                 NewColumn |-> target,
                 TypeChanged |-> source.DataType # target.DataType,
                 NullableChanged |-> source.IsNullable # target.IsNullable,
                 DefaultChanged |->
                     ~compareNullableStrings(source.DefaultValue,
                                             target.DefaultValue)]
    IN  IF diff.TypeChanged \/ diff.NullableChanged \/ diff.DefaultChanged
        THEN Some(diff) ELSE Nil

\* values of the keys that target holds and source does not
OnlyIn(target, source) == { target[k] : k \in DOMAIN target \ DOMAIN source }

InBoth(source, target) == DOMAIN source \cap DOMAIN target

\* the TableDiffs the three loops can build, one per order in which the
\* column maps are met; none when the table has no change
compareTableStructure(source, target) ==
    LET added == OnlyIn(target.Columns, source.Columns)
        dropped == OnlyIn(source.Columns, target.Columns)
        altered == { compareColumns(source.Columns[c], target.Columns[c])[1] :
                       c \in { x \in InBoth(source.Columns, target.Columns) :
                                 compareColumns(source.Columns[x],
                                                target.Columns[x]) # Nil } }
    IN  IF added = {} /\ dropped = {} /\ altered = {} THEN {}
        ELSE { [TableName |-> target.Name,
                AddedColumns |-> a,
                DroppedColumns |-> d,
                AlteredColumns |-> c] :
               a \in Perms(added), d \in Perms(dropped), c \in Perms(altered) }

compareEnumValuesAddedOnly(source, target) ==
    LET diff == [Name |-> target.Name,
                 AddedValues |->
                     SelectSeq(target.Values,
                               LAMBDA v : v \notin Range(source.Values)),
                 RemovedValues |-> <<>>]
    IN  IF diff.AddedValues = <<>> THEN Nil ELSE Some(diff)

\* Nil when no value was added or removed, else the EnumDiff
compareEnumValues(source, target) ==
    LET diff == [Name |-> target.Name,
                 AddedValues |->
                     SelectSeq(target.Values,
                               LAMBDA v : v \notin Range(source.Values)),
                 RemovedValues |->
                     SelectSeq(source.Values,
                               LAMBDA v : v \notin Range(target.Values))]
    IN  IF diff.AddedValues = <<>> /\ diff.RemovedValues = <<>>
        THEN Nil ELSE Some(diff)

DefinitionDiff(source, target) ==
    [Name |-> target.Name,
     OldDefinition |-> source.Definition,
     NewDefinition |-> target.Definition]

\* compareFunctions and compareViews: the altered bucket, as a set
AlteredDefinitions(source, target) ==
    { DefinitionDiff(source[k], target[k]) :
        k \in { x \in InBoth(source, target) :
                  source[x].Definition # target[x].Definition } }

AlteredEnumsOf(source, target) ==
    { compareEnumValues(source[k], target[k])[1] :
        k \in { x \in InBoth(source, target) :
                  compareEnumValues(source[x], target[x]) # Nil } }

\* the AlteredTables slices: altered keys in any order, one TableDiff each
AlteredTablesOf(source, target) ==
    LET keys == { k \in InBoth(source, target) :
                    compareTableStructure(source[k], target[k]) # {} }
        diffs == UNION { compareTableStructure(source[k], target[k]) : k \in keys }
    IN  UNION { { d \in [1..Cardinality(keys) -> diffs] :
                    \A i \in 1..Cardinality(keys) :
                        d[i] \in compareTableStructure(source[p[i]], target[p[i]]) }
                : p \in Perms(keys) }

\* compareIndexes skips primary-key indexes
NotPrimary(indexes) == { i \in indexes : ~i.IsPrimary }

\* Comparator.Compare: every DiffResult the map iteration orders allow
Compare(source, target) ==
    { [CreatedTables |-> ct, DroppedTables |-> dt, AlteredTables |-> at,
       CreatedIndexes |-> ci, DroppedIndexes |-> di,
       CreatedConstraints |-> cc, DroppedConstraints |-> dc,
       CreatedSequences |-> cs, DroppedSequences |-> ds,
       CreatedEnums |-> ce, DroppedEnums |-> de, AlteredEnums |-> ae,
       CreatedFunctions |-> cf, DroppedFunctions |-> df, AlteredFunctions |-> af,
       CreatedViews |-> cv, DroppedViews |-> dv, AlteredViews |-> av,
       CreatedTriggers |-> cg, DroppedTriggers |-> dg] :
      ct \in Perms(OnlyIn(target.Tables, source.Tables)),
      dt \in Perms(OnlyIn(source.Tables, target.Tables)),
      at \in AlteredTablesOf(source.Tables, target.Tables),
      ci \in Perms(NotPrimary(OnlyIn(target.Indexes, source.Indexes))),
      di \in Perms(NotPrimary(OnlyIn(source.Indexes, target.Indexes))),
      cc \in Perms(OnlyIn(target.Constraints, source.Constraints)),
      dc \in Perms(OnlyIn(source.Constraints, target.Constraints)),
      cs \in Perms(OnlyIn(target.Sequences, source.Sequences)),
      ds \in Perms(OnlyIn(source.Sequences, target.Sequences)),
      ce \in Perms(OnlyIn(target.Enums, source.Enums)),
      de \in Perms(OnlyIn(source.Enums, target.Enums)),
      ae \in Perms(AlteredEnumsOf(source.Enums, target.Enums)),
      cf \in Perms(OnlyIn(target.Functions, source.Functions)),
      df \in Perms(OnlyIn(source.Functions, target.Functions)),
      af \in Perms(AlteredDefinitions(source.Functions, target.Functions)),
      cv \in Perms(OnlyIn(target.Views, source.Views)),
      dv \in Perms(OnlyIn(source.Views, target.Views)),
      av \in Perms(AlteredDefinitions(source.Views, target.Views)),
      cg \in Perms(OnlyIn(target.Triggers, source.Triggers)),
      dg \in Perms(OnlyIn(source.Triggers, target.Triggers)) }

\* DiffResult.HasChanges: the buckets the code tests
HasChanges(d) ==
    \/ Len(d.CreatedTables) > 0
    \/ Len(d.DroppedTables) > 0
    \/ Len(d.AlteredTables) > 0
    \/ Len(d.CreatedIndexes) > 0
    \/ Len(d.DroppedIndexes) > 0
    \/ Len(d.CreatedConstraints) > 0
    \/ Len(d.DroppedConstraints) > 0
    \/ Len(d.CreatedViews) > 0
    \/ Len(d.DroppedViews) > 0
    \/ Len(d.AlteredViews) > 0
    \/ Len(d.CreatedFunctions) > 0
    \/ Len(d.DroppedFunctions) > 0
    \/ Len(d.AlteredFunctions) > 0
    \/ Len(d.CreatedTriggers) > 0
    \/ Len(d.DroppedTriggers) > 0
    \/ Len(d.CreatedEnums) > 0
    \/ Len(d.DroppedEnums) > 0
    \/ Len(d.CreatedSequences) > 0
    \/ Len(d.DroppedSequences) > 0

\* ---- diff: Generator ----
\* a script is the sequence of its entries: header lines, statements, comments
\* and blank lines; a definition taken from the catalog is entered under the
\* statement it is (CREATE FUNCTION, CREATE INDEX, CREATE TRIGGER)
Entry(stmt, name, arg) == [stmt |-> stmt, name |-> name, arg |-> arg]
Blank == Entry("", "", <<>>)

\* the entries F writes for each element of seq, in the order of seq
Each(seq, F(_)) ==
    LET acc[i \in 0..Len(seq)] ==
            IF i = 0 THEN <<>> ELSE acc[i - 1] \o F(seq[i])
    IN  acc[Len(seq)]

Description == "description"
GeneratedAt == "2006-01-02T15:04:05Z"

Header(direction) ==
    << Entry("-- Migration:", Description, <<>>),
       Entry("-- Generated:", GeneratedAt, <<>>),
       Entry(direction, "", <<>>),
       Blank >>

\* the modelled columns hold no length, precision or scale
formatColumnType(col) == col.DataType

ColumnText(col) ==
    <<col.Name, formatColumnType(col)>>
    \o (IF ~col.IsNullable THEN <<"NOT NULL">> ELSE <<>>)
    \o (IF col.DefaultValue # Nil THEN <<"DEFAULT", col.DefaultValue[1]>>
        ELSE <<>>)

\* the columns of a table sorted by ordinal position
SortedColumns(table) ==
    LET cols == { table.Columns[c] : c \in DOMAIN table.Columns }
    IN  CHOOSE p \in Perms(cols) :
            \A i, j \in DOMAIN p :
                i < j => p[i].OrdinalPosition <= p[j].OrdinalPosition

Part(up, down, warnings, breaking) ==
    [up |-> up, down |-> down, warnings |-> warnings, breaking |-> breaking]

NoPart == Part(<<>>, <<>>, <<>>, FALSE)

Join(a, b) ==
    Part(a.up \o b.up, a.down \o b.down, a.warnings \o b.warnings,
         a.breaking \/ b.breaking)

JoinAll(parts) ==
    LET acc[i \in 0..Len(parts)] ==
            IF i = 0 THEN NoPart ELSE Join(acc[i - 1], parts[i])
    IN  acc[Len(parts)]

EachPart(seq, F(_)) == JoinAll([i \in 1..Len(seq) |-> F(seq[i])])

CreateEnum(enum) == <<Entry("CREATE TYPE", enum.Name, enum.Values), Blank>>
DropEnum(enum) == <<Entry("DROP TYPE", enum.Name, <<>>), Blank>>

AlterEnum(enumDiff) ==
    Part(Each(enumDiff.AddedValues,
              LAMBDA val : <<Entry("ALTER TYPE ADD VALUE", enumDiff.Name,
                                   <<val>>)>>)
         \o <<Blank>>,
         <<>>,
         IF enumDiff.RemovedValues # <<>>
         THEN <<Entry("Cannot automatically remove enum values",
                      enumDiff.Name, <<>>)>>
         ELSE <<>>,
         enumDiff.RemovedValues # <<>>)

generateEnums(diff) ==
    JoinAll(<<
        EachPart(diff.CreatedEnums,
                 LAMBDA e : Part(CreateEnum(e), DropEnum(e), <<>>, FALSE)),
        EachPart(diff.AlteredEnums, AlterEnum),
        EachPart(diff.DroppedEnums,
                 LAMBDA e : Part(DropEnum(e), CreateEnum(e), <<>>, FALSE)) >>)

CreateSequence(seq) ==
    <<Entry("CREATE SEQUENCE", seq.Name, <<>>), Blank>>
DropSequence(seq) == <<Entry("DROP SEQUENCE", seq.Name, <<>>), Blank>>

generateSequences(diff) ==
    JoinAll(<<
        EachPart(diff.CreatedSequences,
                 LAMBDA q : Part(CreateSequence(q), DropSequence(q), <<>>, FALSE)),
        EachPart(diff.DroppedSequences,
                 LAMBDA q : Part(DropSequence(q), CreateSequence(q), <<>>, FALSE)) >>)

CreateTable(table) ==
    Part(<<Entry("CREATE TABLE", table.Name,
                 Each(SortedColumns(table), ColumnText)), Blank>>,
         <<Entry("DROP TABLE", table.Name, <<>>), Blank>>,
         <<>>, FALSE)

AddColumn(tableDiff, col) ==
    Part(<<Entry("ADD COLUMN", tableDiff.TableName, ColumnText(col))>>,
         <<Entry("DROP COLUMN", tableDiff.TableName, <<col.Name>>)>>,
         <<>>, FALSE)

DropColumn(tableDiff, col) ==
    Part(<<Entry("DROP COLUMN", tableDiff.TableName, <<col.Name>>)>>,
         <<Entry("ADD COLUMN", tableDiff.TableName, ColumnText(col))>>,
         <<Entry("Dropping column will result in data loss",
                 tableDiff.TableName, <<col.Name>>)>>,
         TRUE)

AlterColumnType(tableDiff, colDiff) ==
    IF colDiff.TypeChanged
    THEN Part(<<Entry("ALTER COLUMN TYPE", tableDiff.TableName,
                      <<colDiff.Name, formatColumnType(colDiff.NewColumn)>>)>>,
              <<Entry("ALTER COLUMN TYPE", tableDiff.TableName,
                      <<colDiff.Name, formatColumnType(colDiff.OldColumn)>>)>>,
              <<Entry("Type change may cause data loss or conversion errors",
                      tableDiff.TableName, <<colDiff.Name>>)>>,
              FALSE)
    ELSE NoPart

AlterColumnNullable(tableDiff, colDiff) ==
    IF ~colDiff.NullableChanged THEN NoPart
    ELSE IF colDiff.NewColumn.IsNullable
    THEN Part(<<Entry("DROP NOT NULL", tableDiff.TableName, <<colDiff.Name>>)>>,
              <<Entry("SET NOT NULL", tableDiff.TableName, <<colDiff.Name>>)>>,
              <<>>, FALSE)
    ELSE Part(<<Entry("SET NOT NULL", tableDiff.TableName, <<colDiff.Name>>)>>,
              <<Entry("DROP NOT NULL", tableDiff.TableName, <<colDiff.Name>>)>>,
              <<Entry("Setting NOT NULL may fail if existing NULL values exist",
                      tableDiff.TableName, <<colDiff.Name>>)>>,
              FALSE)

SetDefault(tableDiff, colDiff, col) ==
    IF col.DefaultValue # Nil
    THEN <<Entry("SET DEFAULT", tableDiff.TableName,
                 <<colDiff.Name, col.DefaultValue[1]>>)>>
    ELSE <<Entry("DROP DEFAULT", tableDiff.TableName, <<colDiff.Name>>)>>

AlterColumnDefault(tableDiff, colDiff) ==
    IF colDiff.DefaultChanged
    THEN Part(SetDefault(tableDiff, colDiff, colDiff.NewColumn),
              SetDefault(tableDiff, colDiff, colDiff.OldColumn),
              <<>>, FALSE)
    ELSE NoPart

AlterTable(tableDiff) ==
    JoinAll(<<
        EachPart(tableDiff.AddedColumns, LAMBDA col : AddColumn(tableDiff, col)),
        EachPart(tableDiff.DroppedColumns,
                 LAMBDA col : DropColumn(tableDiff, col)),
        EachPart(tableDiff.AlteredColumns,
                 LAMBDA colDiff :
                     JoinAll(<<AlterColumnType(tableDiff, colDiff),
                               AlterColumnNullable(tableDiff, colDiff),
                               AlterColumnDefault(tableDiff, colDiff)>>)),
        Part(<<Blank>>, <<Blank>>, <<>>, FALSE) >>)

DropTable(table) ==
    Part(<<Entry("DROP TABLE", table.Name, <<>>), Blank>>,
         <<Entry("-- TODO: Recreate table", table.Name, <<>>), Blank>>,
         <<Entry("Dropping table will result in complete data loss",
                 table.Name, <<>>)>>,
         TRUE)

generateTablesDropsFirst(diff) ==
    JoinAll(<<EachPart(diff.DroppedTables, DropTable),
              EachPart(diff.CreatedTables, CreateTable),
              EachPart(diff.AlteredTables, AlterTable)>>)

generateTables(diff) ==
    JoinAll(<<EachPart(diff.CreatedTables, CreateTable),
              EachPart(diff.AlteredTables, AlterTable),
              EachPart(diff.DroppedTables, DropTable)>>)

\* a blank line closes a run of statements that wrote any
Closed(entries) == IF entries = <<>> THEN <<>> ELSE entries \o <<Blank>>

AddConstraint(constraint) ==
    <<Entry("ADD CONSTRAINT", constraint.TableName,
            <<constraint.Name, constraint.Definition>>)>>
DropConstraint(constraint) ==
    <<Entry("DROP CONSTRAINT", constraint.TableName, <<constraint.Name>>)>>

generateConstraints(diff) ==
    Part(Closed(Each(diff.DroppedConstraints, DropConstraint))
         \o Closed(Each(diff.CreatedConstraints, AddConstraint)),
         Closed(Each(diff.CreatedConstraints, DropConstraint))
         \o Closed(Each(diff.DroppedConstraints, AddConstraint)),
         <<>>, FALSE)

CreateIndex(index) ==
    <<Entry("CREATE INDEX", index.Name, <<index.Definition>>)>>
DropIndex(index) == <<Entry("DROP INDEX", index.Name, <<>>)>>

generateIndexes(diff) ==
    Part(Closed(Each(diff.CreatedIndexes, CreateIndex))
         \o Closed(Each(diff.DroppedIndexes, DropIndex)),
         Closed(Each(diff.CreatedIndexes, DropIndex))
         \o Closed(Each(diff.DroppedIndexes, CreateIndex)),
         <<>>, FALSE)

CreateFunction(name, definition) ==
    <<Entry("CREATE FUNCTION", name, <<definition>>), Blank>>
DropFunction(fn) == <<Entry("DROP FUNCTION", fn.Name, <<>>), Blank>>

generateFunctions(diff) ==
    JoinAll(<<
        EachPart(diff.CreatedFunctions,
                 LAMBDA fn : Part(CreateFunction(fn.Name, fn.Definition),
                                  DropFunction(fn), <<>>, FALSE)),
        EachPart(diff.AlteredFunctions,
                 LAMBDA fnDiff :
                     Part(<<Entry("-- Replacing function", fnDiff.Name, <<>>)>>
                          \o CreateFunction(fnDiff.Name, fnDiff.NewDefinition),
                          <<Entry("-- Restoring function", fnDiff.Name, <<>>)>>
                          \o CreateFunction(fnDiff.Name, fnDiff.OldDefinition),
                          <<>>, FALSE)),
        EachPart(diff.DroppedFunctions,
                 LAMBDA fn : Part(DropFunction(fn),
                                  CreateFunction(fn.Name, fn.Definition),
                                  <<>>, FALSE)) >>)

CreateView(view) ==
    <<Entry("CREATE VIEW", view.Name, <<view.Definition>>), Blank>>
ReplaceView(name, definition) ==
    <<Entry("CREATE OR REPLACE VIEW", name, <<definition>>), Blank>>
DropView(view) == <<Entry("DROP VIEW", view.Name, <<>>), Blank>>

generateViews(diff) ==
    JoinAll(<<
        EachPart(diff.CreatedViews,
                 LAMBDA view : Part(CreateView(view), DropView(view),
                                    <<>>, FALSE)),
        EachPart(diff.AlteredViews,
                 LAMBDA viewDiff :
                     Part(ReplaceView(viewDiff.Name, viewDiff.NewDefinition),
                          ReplaceView(viewDiff.Name, viewDiff.OldDefinition),
                          <<>>, FALSE)),
        EachPart(diff.DroppedViews,
                 LAMBDA view : Part(DropView(view), CreateView(view),
                                    <<>>, FALSE)) >>)

CreateTrigger(trigger) ==
    <<Entry("CREATE TRIGGER", trigger.Name, <<trigger.Definition>>), Blank>>
DropTrigger(trigger) ==
    <<Entry("DROP TRIGGER", trigger.Name, <<trigger.TableName>>), Blank>>

generateTriggers(diff) ==
    JoinAll(<<
        EachPart(diff.CreatedTriggers,
                 LAMBDA g : Part(CreateTrigger(g), DropTrigger(g), <<>>, FALSE)),
        EachPart(diff.DroppedTriggers,
                 LAMBDA g : Part(DropTrigger(g), CreateTrigger(g), <<>>, FALSE)) >>)

\* Generator.Generate: the header, then the groups in dependency order
Generate(diff) ==
    LET body == JoinAll(<<generateEnums(diff),
                          generateSequences(diff),
                          generateTables(diff),
                          generateConstraints(diff),
                          generateIndexes(diff),
                          generateFunctions(diff),
                          generateViews(diff),
                          generateTriggers(diff)>>)
    IN  [UpScript |-> Header("-- UP Migration") \o body.up,
         DownScript |-> Header("-- DOWN Migration") \o body.down,
         Warnings |-> body.warnings,
         HasBreaking |-> body.breaking]

\* ---- diff: snapshots read, compared, scripts generated ----
NoDiffResult == CHOOSE d \in Compare(EmptySchema, EmptySchema) : TRUE

NoScript ==
    [UpScript |-> <<>>, DownScript |-> <<>>, Warnings |-> <<>>,
     HasBreaking |-> FALSE]

InitDiff ==
    /\ plan = <<>>
    /\ alterDefined = {}
    /\ nCmds = 0
    /\ cfgAppVersion = 0
    /\ history = <<>>
    /\ calls = <<>>
    /\ fetches = <<>>
    /\ started = 0
    /\ \E n \in 0..MaxObjects, m \in 0..MaxObjects :
       \E source \in SchemasOfSize[n], target \in SchemasOfSize[m] :
          /\ n + m <= MaxObjects \/ source = target
          /\ frame = [pc |-> "read", source |-> source, target |-> target,
                      diffResult |-> NoDiffResult, script |-> NoScript]

DiffUnchanged ==
    UNCHANGED <<plan, alterDefined, nCmds, cfgAppVersion, history, calls,
                fetches, started>>

DiffCompare ==
    /\ frame.pc = "read"
    /\ \E result \in Compare(frame.source, frame.target) :
          frame' = [frame EXCEPT !.diffResult = result, !.pc = "compared"]
    /\ DiffUnchanged

DiffGenerate ==
    /\ frame.pc = "compared"
    /\ frame' = [frame EXCEPT !.script = Generate(frame.diffResult),
                              !.pc = "generated"]
    /\ DiffUnchanged

NextDiff == DiffCompare \/ DiffGenerate

SpecDiff == InitDiff /\ [][NextDiff]_vars

\* C16 as stated: HasChanges is true exactly when some bucket of the Diff
\* Result, the altered bucket of enums included, is non-empty.
HasChangesIffAnyBucket ==
    frame.pc = "compared" =>
        (HasChanges(frame.diffResult)
            <=> \E b \in DOMAIN frame.diffResult : frame.diffResult[b] # <<>>)

\* C17: Compare(S, S) leaves every bucket empty, HasChanges is false, and
\* Generate gives forward and reverse scripts that are the header only.
CompareSameIsEmpty ==
    frame.source = frame.target =>
        /\ frame.pc # "read" =>
              /\ \A b \in DOMAIN frame.diffResult : frame.diffResult[b] = <<>>
              /\ ~HasChanges(frame.diffResult)
        /\ frame.pc = "generated" =>
              /\ frame.script.UpScript = Header("-- UP Migration")
              /\ frame.script.DownScript = Header("-- DOWN Migration")

CompareSameIsEmptyWitness ==
    /\ frame.pc = "generated"
    /\ frame.source = frame.target
    /\ Size(frame.source) = MaxObjects
    /\ "t1" \in DOMAIN frame.source.Tables
    /\ "c1" \in DOMAIN frame.source.Tables["t1"].Columns
    /\ frame.source.Tables["t1"].Columns["c1"].DefaultValue = Nil

\* ---- C18: each key in one bucket ----
CreatedBucket ==
    [Tables |-> "CreatedTables", Sequences |-> "CreatedSequences",
     Enums |-> "CreatedEnums", Functions |-> "CreatedFunctions",
     Indexes |-> "CreatedIndexes", Constraints |-> "CreatedConstraints",
     Views |-> "CreatedViews", Triggers |-> "CreatedTriggers"]

DroppedBucket ==
    [Tables |-> "DroppedTables", Sequences |-> "DroppedSequences",
     Enums |-> "DroppedEnums", Functions |-> "DroppedFunctions",
     Indexes |-> "DroppedIndexes", Constraints |-> "DroppedConstraints",
     Views |-> "DroppedViews", Triggers |-> "DroppedTriggers"]

NamesIn(bucket) == { bucket[i].Name : i \in DOMAIN bucket }

AlteredNames(d, class) ==
    CASE class = "Tables" ->
             { d.AlteredTables[i].TableName : i \in DOMAIN d.AlteredTables }
      [] class = "Enums" -> NamesIn(d.AlteredEnums)
      [] class = "Functions" -> NamesIn(d.AlteredFunctions)
      [] class = "Views" -> NamesIn(d.AlteredViews)
      [] OTHER -> {}

\* equivalence of two objects of a class as section 4.7 of the specification
\* words it, not as the comparator computes it
Equivalent(class, a, b) ==
    CASE class = "Tables" ->
             /\ DOMAIN a.Columns = DOMAIN b.Columns
             /\ \A c \in DOMAIN a.Columns :
                   /\ a.Columns[c].DataType = b.Columns[c].DataType
                   /\ a.Columns[c].IsNullable = b.Columns[c].IsNullable
                   /\ a.Columns[c].DefaultValue = b.Columns[c].DefaultValue
      [] class = "Enums" -> Range(a.Values) = Range(b.Values)
      [] class \in {"Functions", "Views"} -> a.Definition = b.Definition
      [] OTHER -> TRUE

NoRepeat(bucket) ==
    \A i, j \in DOMAIN bucket : i # j => bucket[i] # bucket[j]

\* the key is in the bucket its presence in source and target calls for, and in
\* no other; Counts(class, object) tells which objects can reach created/dropped
KeyInOneBucket(class, key, Counts(_, _)) ==
    LET d == frame.diffResult
        A == frame.source[class]
        B == frame.target[class]
        created == key \in NamesIn(d[CreatedBucket[class]])
        dropped == key \in NamesIn(d[DroppedBucket[class]])
        altered == key \in AlteredNames(d, class)
    IN  /\ created <=> (key \in DOMAIN B \ DOMAIN A /\ Counts(class, B[key]))
        /\ dropped <=> (key \in DOMAIN A \ DOMAIN B /\ Counts(class, A[key]))
        /\ altered <=> (key \in DOMAIN A \cap DOMAIN B
                        /\ ~Equivalent(class, A[key], B[key]))
        /\ ~(created /\ dropped) /\ ~(created /\ altered)
        /\ ~(dropped /\ altered)

KeysInOneBucket(Counts(_, _)) ==
    frame.pc = "compared" =>
        /\ \A b \in DOMAIN frame.diffResult : NoRepeat(frame.diffResult[b])
        /\ \A class \in Classes :
              \A key \in DOMAIN frame.source[class] \cup DOMAIN frame.target[class] :
                  KeyInOneBucket(class, key, Counts)

\* C18 as stated: for every class, a key only in the target is in created, a
\* key only in the source is in dropped, a key in both is in altered when the
\* two objects are not equivalent, and otherwise the key is in no bucket.
EveryKeyInOneBucket == KeysInOneBucket(LAMBDA class, object : TRUE)

NotPrimaryIndex(class, object) == class = "Indexes" => ~object.IsPrimary

\* C18: the same, except that a primary-key index that is only in the target
\* or only in the source is in no bucket.
KeyInOneBucketButPrimary == KeysInOneBucket(NotPrimaryIndex)

KeyInOneBucketButPrimaryWitness ==
    /\ frame.pc = "compared"
    /\ frame.diffResult.AlteredTables # <<>>
    /\ "i1" \in DOMAIN frame.target.Indexes \ DOMAIN frame.source.Indexes
    /\ frame.target.Indexes["i1"].IsPrimary
    /\ frame.diffResult.CreatedIndexes = <<>>

\* ---- C19: Compare(B, A) against Compare(A, B) ----
InvertColumnDiff(c) ==
    [c EXCEPT !.OldColumn = c.NewColumn, !.NewColumn = c.OldColumn]

InvertTableDiff(t) ==
    [TableName |-> t.TableName,
     AddedColumns |-> t.DroppedColumns,
     DroppedColumns |-> t.AddedColumns,
     AlteredColumns |->
         [i \in DOMAIN t.AlteredColumns |-> InvertColumnDiff(t.AlteredColumns[i])]]

InvertEnumDiff(e) ==
    [Name |-> e.Name, AddedValues |-> e.RemovedValues,
     RemovedValues |-> e.AddedValues]

InvertDefinitionDiff(f) ==
    [Name |-> f.Name, OldDefinition |-> f.NewDefinition,
     NewDefinition |-> f.OldDefinition]

InvertAll(bucket, Invert(_)) == [i \in DOMAIN bucket |-> Invert(bucket[i])]

\* created and dropped swapped, every altered entry turned round
Inverted(d) ==
    [CreatedTables |-> d.DroppedTables, DroppedTables |-> d.CreatedTables,
     AlteredTables |-> InvertAll(d.AlteredTables, InvertTableDiff),
     CreatedIndexes |-> d.DroppedIndexes, DroppedIndexes |-> d.CreatedIndexes,
     CreatedConstraints |-> d.DroppedConstraints,
     DroppedConstraints |-> d.CreatedConstraints,
     CreatedSequences |-> d.DroppedSequences,
     DroppedSequences |-> d.CreatedSequences,
     CreatedEnums |-> d.DroppedEnums, DroppedEnums |-> d.CreatedEnums,
     AlteredEnums |-> InvertAll(d.AlteredEnums, InvertEnumDiff),
     CreatedFunctions |-> d.DroppedFunctions,
     DroppedFunctions |-> d.CreatedFunctions,
     AlteredFunctions |-> InvertAll(d.AlteredFunctions, InvertDefinitionDiff),
     CreatedViews |-> d.DroppedViews, DroppedViews |-> d.CreatedViews,
     AlteredViews |-> InvertAll(d.AlteredViews, InvertDefinitionDiff),
     CreatedTriggers |-> d.DroppedTriggers,
     DroppedTriggers |-> d.CreatedTriggers]

\* a TableDiff with its column slices taken as sets
TableDiffAsSets(t) ==
    [TableName |-> t.TableName,
     AddedColumns |-> Range(t.AddedColumns),
     DroppedColumns |-> Range(t.DroppedColumns),
     AlteredColumns |-> Range(t.AlteredColumns)]

\* a DiffResult with its buckets taken as sets
AsSets(d) ==
    [b \in DOMAIN d |->
        IF b = "AlteredTables"
        THEN { TableDiffAsSets(d[b][i]) : i \in DOMAIN d[b] }
        ELSE Range(d[b])]

\* C19: Compare(B, A) holds, as sets, the created and dropped buckets of
\* Compare(A, B) swapped and every altered entry inverted.
CompareReversedIsInverse ==
    frame.pc = "compared" =>
        \A reversed \in Compare(frame.target, frame.source) :
            AsSets(reversed) = AsSets(Inverted(frame.diffResult))

CompareReversedIsInverseWitness ==
    /\ frame.pc = "compared"
    /\ \E i \in DOMAIN frame.diffResult.AlteredTables :
          \E j \in DOMAIN frame.diffResult.AlteredTables[i].AlteredColumns :
              LET c == frame.diffResult.AlteredTables[i].AlteredColumns[j]
              IN  c.TypeChanged /\ ~c.NullableChanged /\ ~c.DefaultChanged
    /\ frame.diffResult.CreatedEnums # <<>>

\* ---- C20: order of the forward script ----
\* the group an entry of the forward script belongs to, and its place inside
\* the group; 0 for header lines and blank lines
Place(entry) ==
    CASE entry.stmt \in {"CREATE TYPE", "ALTER TYPE ADD VALUE", "DROP TYPE"} -> 10
      [] entry.stmt \in {"CREATE SEQUENCE", "DROP SEQUENCE"} -> 20
      [] entry.stmt = "CREATE TABLE" -> 31
      [] entry.stmt \in {"ADD COLUMN", "DROP COLUMN", "ALTER COLUMN TYPE",
                         "DROP NOT NULL", "SET NOT NULL", "SET DEFAULT",
                         "DROP DEFAULT"} -> 32
      [] entry.stmt = "DROP TABLE" -> 33
      [] entry.stmt = "DROP CONSTRAINT" -> 41
      [] entry.stmt = "ADD CONSTRAINT" -> 42
      [] entry.stmt \in {"CREATE INDEX", "DROP INDEX"} -> 50
      [] entry.stmt \in {"CREATE FUNCTION", "-- Replacing function",
                         "DROP FUNCTION"} -> 60
      [] entry.stmt \in {"CREATE VIEW", "CREATE OR REPLACE VIEW", "DROP VIEW"} -> 70
      [] entry.stmt \in {"CREATE TRIGGER", "DROP TRIGGER"} -> 80
      [] OTHER -> 0

\* C20: in the forward script the groups come in the order enums, sequences,
\* tables, constraints, indexes, functions, views, triggers; among the table
\* statements creates come before alters and alters before drops; among the
\* constraint statements drops come before creates.
ForwardScriptOrder ==
    frame.pc = "generated" =>
        LET up == frame.script.UpScript
        IN  \A i, j \in DOMAIN up :
                (i < j /\ Place(up[i]) # 0 /\ Place(up[j]) # 0)
                    => Place(up[i]) <= Place(up[j])

ForwardScriptOrderWitness ==
    /\ frame.pc = "generated"
    /\ frame.diffResult.AlteredTables # <<>>
    /\ frame.diffResult.DroppedTables # <<>>
    /\ \E i, j \in DOMAIN frame.script.UpScript :
          /\ i < j
          /\ Place(frame.script.UpScript[i]) = 32
          /\ Place(frame.script.UpScript[j]) = 33

\* ---- C21, C22: warnings ----
AlteredColumnsOf(d) ==
    UNION { Range(d.AlteredTables[i].AlteredColumns) : i \in DOMAIN d.AlteredTables }

HasDroppedColumn(d) ==
    \E i \in DOMAIN d.AlteredTables : d.AlteredTables[i].DroppedColumns # <<>>

HasTypeChange(d) == \E c \in AlteredColumnsOf(d) : c.TypeChanged

HasNotNullSet(d) ==
    \E c \in AlteredColumnsOf(d) :
        c.NullableChanged /\ c.OldColumn.IsNullable /\ ~c.NewColumn.IsNullable

HasRemovedEnumValues(d) ==
    \E i \in DOMAIN d.AlteredEnums : d.AlteredEnums[i].RemovedValues # <<>>

\* C21: a diff that holds a dropped column, a dropped table, a column type
\* change, NOT NULL set on a nullable column or removed enum values makes
\* Generate raise a warning and set hasBreaking.
BreakingChangesFlagged ==
    frame.pc = "generated" =>
        LET d == frame.diffResult
        IN  (\/ HasDroppedColumn(d)
             \/ d.DroppedTables # <<>>
             \/ HasTypeChange(d)
             \/ HasNotNullSet(d)
             \/ HasRemovedEnumValues(d))
                => /\ frame.script.Warnings # <<>>
                   /\ frame.script.HasBreaking

EntriesFor(script, stmt, name) ==
    SelectSeq(script, LAMBDA e : e.stmt = stmt /\ e.name = name)

\* C22: for an altered enum that only gains values the forward script holds
\* one ALTER TYPE ADD VALUE per added value, the reverse script holds no
\* statement for the enum, and the warning that enum values cannot be removed
\* automatically is raised.
GainedEnumValuesWarned ==
    frame.pc = "generated" =>
        \A i \in DOMAIN frame.diffResult.AlteredEnums :
            LET e == frame.diffResult.AlteredEnums[i]
            IN  (e.AddedValues # <<>> /\ e.RemovedValues = <<>>) =>
                    /\ Len(EntriesFor(frame.script.UpScript,
                                      "ALTER TYPE ADD VALUE", e.Name))
                           = Len(e.AddedValues)
                    /\ \A j \in DOMAIN frame.script.DownScript :
                           frame.script.DownScript[j].name # e.Name
                    /\ EntriesFor(frame.script.Warnings,
                                  "Cannot automatically remove enum values",
                                  e.Name) # <<>>

\* ---- diff: SchemaReader ----
\* the key of a column in the ignore-columns set
ColumnKey(tableName, columnName) == tableName \o "." \o columnName

IgnorableColumns ==
    { ColumnKey(t, c) : t \in TableKeys, c \in UNION { ColumnKeys[k] : k \in TableKeys } }

NewSchemaReader(db) == [db |-> db, ignoreTables |-> {}, ignoreColumns |-> {}]

shouldIgnoreTable(r, tableName) == tableName \in r.ignoreTables

shouldIgnoreColumn(r, tableName, columnName) ==
    ColumnKey(tableName, columnName) \in r.ignoreColumns

\* readColumns: every row of the table's columns goes into table.Columns
readColumns(r, table) ==
    [c \in DOMAIN r.db[table].Columns |-> r.db[table].Columns[c]]

\* readTables: every base table of the schema goes into schema.Tables
readTables(r) ==
    [t \in DOMAIN r.db |-> [Name |-> r.db[t].Name, Columns |-> readColumns(r, t)]]

InitReader ==
    /\ plan = <<>>
    /\ alterDefined = {}
    /\ nCmds = 0
    /\ cfgAppVersion = 0
    /\ history = <<>>
    /\ calls = <<>>
    /\ fetches = <<>>
    /\ started = 0
    /\ \E db \in Maps(TableKeys, Tables) :
          frame = [pc |-> "new", r |-> NewSchemaReader(db),
                   schema |-> EmptySchema, err |-> FALSE]

SetIgnoreTables ==
    /\ frame.pc = "new"
    /\ \E tables \in SUBSET TableKeys :
          frame' = [frame EXCEPT !.r.ignoreTables = tables, !.pc = "tablesSet"]
    /\ DiffUnchanged

SetIgnoreColumns ==
    /\ frame.pc = "tablesSet"
    /\ \E columns \in SUBSET IgnorableColumns :
          frame' = [frame EXCEPT !.r.ignoreColumns = columns, !.pc = "columnsSet"]
    /\ DiffUnchanged

\* ReadSchema: the catalog queries answer, or one of them fails
ReadSchema ==
    /\ frame.pc = "columnsSet"
    /\ \/ frame' = [frame EXCEPT !.schema.Tables = readTables(frame.r),
                                 !.pc = "read"]
       \/ frame' = [frame EXCEPT !.err = TRUE, !.pc = "read"]
    /\ DiffUnchanged

NextReader == SetIgnoreTables \/ SetIgnoreColumns \/ ReadSchema

SpecReader == InitReader /\ [][NextReader]_vars

\* C23: the snapshot ReadSchema returns holds no table of the ignore-tables
\* set and no column whose key table.column is in the ignore-columns set.
IgnoredNeverRead ==
    (frame.pc = "read" /\ ~frame.err) =>
        \A t \in DOMAIN frame.schema.Tables :
            /\ ~shouldIgnoreTable(frame.r, frame.schema.Tables[t].Name)
            /\ \A c \in DOMAIN frame.schema.Tables[t].Columns :
                  ~shouldIgnoreColumn(frame.r, frame.schema.Tables[t].Name,
                                      frame.schema.Tables[t].Columns[c].Name)

\* ---- C24: statements after a table is dropped ----
\* the table a statement of the forward script operates on, "" when none
TableOf(entry) ==
    CASE entry.stmt \in {"CREATE TABLE", "ADD COLUMN", "DROP COLUMN",
                         "ALTER COLUMN TYPE", "DROP NOT NULL", "SET NOT NULL",
                         "SET DEFAULT", "DROP DEFAULT", "DROP TABLE",
                         "DROP CONSTRAINT", "ADD CONSTRAINT"} -> entry.name
      [] entry.stmt = "DROP TRIGGER" -> entry.arg[1]
      [] OTHER -> ""

\* every constraint and trigger of the snapshot is on a table of the snapshot
Consistent(schema) ==
    /\ \A k \in DOMAIN schema.Constraints :
          schema.Constraints[k].TableName \in DOMAIN schema.Tables
    /\ \A g \in DOMAIN schema.Triggers :
          schema.Triggers[g].TableName \in DOMAIN schema.Tables

\* C24: in the forward script no statement operates on a table after the
\* statement that drops that table.
NothingAfterDropTable ==
    (frame.pc = "generated" /\ Consistent(frame.source)
                            /\ Consistent(frame.target)) =>
        LET up == frame.script.UpScript
        IN  \A i, j \in DOMAIN up :
                (i < j /\ up[i].stmt = "DROP TABLE")
                    => TableOf(up[j]) # up[i].name

\* ---- two /db/deploy requests served at the same time ----
\* net/http serves each request on its own goroutine; deployHandler calls
\* DM.Deploy on the shared DbMan with no lock, so the steps of the two calls
\* interleave freely. frame holds one engine frame per request.
Requests == {1, 2}

\* getVersion of a provider that tells the truth about the history table
ProviderVersion(h) ==
    IF h = <<>>
    THEN [error |-> TRUE, result |-> NoVersion, flat |-> FALSE]
    ELSE [error |-> FALSE, result |-> h[Len(h)], flat |-> TRUE]

ReqCall(p, call) == [req |-> p, call |-> call]

InitConc ==
    /\ \E n \in 1..MaxReleases :
          /\ plan = [j \in 1..n |->
                        [AppVersion |-> j, DbVersion |-> 10 + j, Path |-> j]]
          /\ cfgAppVersion \in 1..n
    /\ alterDefined = {}
    /\ nCmds \in 0..MaxCmds
    /\ history = <<>>
    /\ frame = [p \in Requests |-> Idle]
    /\ calls = <<>>
    /\ fetches = <<>>
    /\ started = 0

\* deployHandler: the request arrives and DM.Deploy is entered
ConcDeployHandler ==
    \E p \in Requests :
        /\ frame[p].pc = "idle"
        /\ frame' = [frame EXCEPT ![p] = [Idle EXCEPT !.action = "Deploy",
                                             !.pc = FirstStep("Deploy")]]
        /\ started' = started + 1
        /\ UNCHANGED <<plan, alterDefined, nCmds, cfgAppVersion, history,
                       calls, fetches>>

ConcGetVersion ==
    \E p \in Requests :
        /\ frame[p].pc = "getVersion"
        /\ LET r == ProviderVersion(history)
           IN  /\ calls' = Append(calls,
                      ReqCall(p, Call("getVersion", NoCmd, NoVersion,
                                      IF r.error THEN "error" ELSE "ok")))
               /\ frame' = [frame EXCEPT ![p] = DeployAfterVersion(frame[p], r)]
        /\ UNCHANGED <<plan, alterDefined, nCmds, cfgAppVersion, history,
                       fetches, started>>

ConcFetchManifest ==
    \E p \in Requests :
        /\ frame[p].pc = "fetchManifest"
        /\ fetches' = Append(fetches, Fetch("manifest", cfgAppVersion, TRUE))
        /\ frame' = [frame EXCEPT ![p] =
               runCommands([frame[p] EXCEPT !.manifest = cfgAppVersion],
                   GetCommands(Manifest(cfgAppVersion),
                               Manifest(cfgAppVersion).Deploy.Commands),
                   "deploy")]
        /\ UNCHANGED <<plan, alterDefined, nCmds, cfgAppVersion, history,
                       calls, started>>

ConcFetchContent ==
    \E p \in Requests :
        /\ frame[p].pc = "fetchContent"
        /\ fetches' = Append(fetches, Fetch("command", cfgAppVersion, TRUE))
        /\ frame' = [frame EXCEPT ![p] =
               IF frame[p].k < Len(frame[p].cmds)
               THEN [frame[p] EXCEPT !.k = frame[p].k + 1]
               ELSE [frame[p] EXCEPT !.k = 1, !.pc = "runCommand"]]
        /\ UNCHANGED <<plan, alterDefined, nCmds, cfgAppVersion, history,
                       calls, started>>

ConcRunCommand ==
    \E p \in Requests, resp \in {"ok", "error"} :
        /\ frame[p].pc = "runCommand"
        /\ calls' = Append(calls,
               ReqCall(p, Call("runCommand",
                               CommandAt(frame[p].cmds, frame[p].k),
                               NoVersion, resp)))
        /\ frame' = [frame EXCEPT ![p] =
               IF HasError(ResponseEnvelope(resp))
               THEN Return(frame[p], "ProviderError")
               ELSE IF frame[p].k < Len(frame[p].cmds)
                    THEN [frame[p] EXCEPT !.k = frame[p].k + 1]
                    ELSE AfterBatch(frame[p])]
        /\ UNCHANGED <<plan, alterDefined, nCmds, cfgAppVersion, history,
                       fetches, started>>

ConcSetVersion ==
    \E p \in Requests :
        /\ frame[p].pc = "setVersion"
        /\ calls' = Append(calls,
               ReqCall(p, Call("setVersion", NoCmd, VersionRow(frame[p]), "ok")))
        /\ history' = Append(history, VersionRow(frame[p]))
        /\ frame' = [frame EXCEPT ![p] =
               AfterSetVersion(frame[p], ResponseEnvelope("ok"))]
        /\ UNCHANGED <<plan, alterDefined, nCmds, cfgAppVersion, fetches,
                       started>>

NextConc ==
    \/ ConcDeployHandler
    \/ ConcGetVersion
    \/ ConcFetchManifest
    \/ ConcFetchContent
    \/ ConcRunCommand
    \/ ConcSetVersion

SpecConc == InitConc /\ [][NextConc]_vars

InProgress(f) == f.pc \notin {"idle", "done"}

\* C25: two requests are never inside an engine action at the same time, the
\* deploy commands are run by at most one of two concurrent /db/deploy
\* requests, and at most one version-history row is written.
DeploysSerialised ==
    /\ \A p, q \in Requests :
          (InProgress(frame[p]) /\ InProgress(frame[q])) => p = q
    /\ Cardinality({ calls[i].req : i \in { j \in DOMAIN calls :
                        calls[j].call.op \in {"runCommand", "setVersion"} } }) <= 1
    /\ Len(history) <= 1

\* ---------------------------------------------------------------------------
\* The HTTP handlers of the engine actions
\* ---------------------------------------------------------------------------

StatusOK == 200
StatusInternalServerError == 500

\* lines an action writes to its log, and the errors it returns
LogLines == { "? I have started", "? I have applied", "!!! I cannot apply" }
Outputs == UNION { [1..n -> LogLines] : n \in 0..MaxLog }
ActionErrors == { "cannot connect", "cannot run command" }

\* http.ResponseWriter of a new request: no header sent yet
NewResponseWriter == [wroteHeader |-> FALSE, status |-> 0, body |-> <<>>]

\* ResponseWriter.WriteHeader: the status line is sent once, a later call is
\* ignored
WriteHeader(w, code) ==
    IF w.wroteHeader THEN w
    ELSE [w EXCEPT !.wroteHeader = TRUE, !.status = code]

\* ResponseWriter.Write: sends the header with status 200 when none was sent
\* yet, also for an empty body, then the bytes
Write(w, b) == [WriteHeader(w, StatusOK) EXCEPT !.body = @ \o b]

\* h.Err(w, code, msg): answer with the status code and the message
Err(w, code, msg) == Write(WriteHeader(w, code), <<msg>>)

\* createHandler, deployHandler, upgradeHandler after the action returned
\* (output, err): the log is written first, then the error or the completion
\* message
WriteOutput(w, output, err) ==
    IF err # Nil
    THEN Err(Write(w, output), StatusInternalServerError, err[1])
    ELSE Write(Write(w, output), <<"? I have completed the action">>)

InitHandlers ==
    /\ plan = <<>>
    /\ alterDefined = {}
    /\ nCmds = 0
    /\ cfgAppVersion = 0
    /\ history = <<>>
    /\ calls = <<>>
    /\ fetches = <<>>
    /\ started = 0
    /\ frame = [pc |-> "listening", action |-> "", output |-> <<>>, err |-> Nil,
                w |-> NewResponseWriter]

\* what the action hands back to its handler: a log and maybe an error
ActionResults == Outputs \X ({Nil} \cup { Some(e) : e \in ActionErrors })

\* the request served: the answer written for the action's result
Answered(action, result) ==
    [pc |-> "answered", action |-> action, output |-> result[1],
     err |-> result[2],
     w |-> WriteOutput(NewResponseWriter, result[1], result[2])]

createHandler ==
    /\ \E result \in ActionResults : frame' = Answered("create", result)
    /\ DiffUnchanged

deployHandler ==
    /\ \E result \in ActionResults : frame' = Answered("deploy", result)
    /\ DiffUnchanged

upgradeHandler ==
    /\ \E result \in ActionResults : frame' = Answered("upgrade", result)
    /\ DiffUnchanged

NextHandlers == createHandler \/ deployHandler \/ upgradeHandler

SpecHandlers == InitHandlers /\ [][NextHandlers]_vars

\* C26: the answer of /db/create, /db/deploy and /db/upgrade has status 500
\* when the action returned an error and status 200 when it succeeded.
StatusFollowsOutcome ==
    frame.pc = "answered" =>
        frame.w.status = (IF frame.err # Nil THEN StatusInternalServerError
                                             ELSE StatusOK)

\* ---------------------------------------------------------------------------
\* The fetches and the provider responses of the release actions
\* ---------------------------------------------------------------------------

\* C27: during Upgrade every command content is fetched for the application
\* version of the release being visited, the one whose manifest was fetched
\* for that step.
CommandsFetchedForOwnRelease ==
    [][(/\ frame.action = "Upgrade"
        /\ Len(fetches') = Len(fetches) + 1
        /\ fetches'[Len(fetches')].what = "command")
          => fetches'[Len(fetches')].appVersion = frame.manifest]_vars

\* the command fetches that failed
FailedFetches ==
    { j \in DOMAIN fetches : fetches[j].what = "command" /\ ~fetches[j].ok }

\* the runCommand calls issued for the commands of the batch of frame f
BatchRuns(f) ==
    { j \in DOMAIN calls : /\ calls[j].op = "runCommand"
                           /\ \E k \in DOMAIN f.cmds : calls[j].cmd = f.cmds[k] }

\* the log of the batch of frame f: runCommands writes to it in its second
\* loop only, a line before each RunCommand
BatchLog(f) ==
    [j \in 1..Cardinality(BatchRuns(f)) |-> "? I have started execution of the command"]

\* C28: no command of a batch is run before the content of all its commands
\* is fetched, and when a fetch fails the action returns the fetch error with
\* no runCommand of the batch issued and the batch log empty.
ContentFetchedBeforeRun ==
    /\ frame.pc = "fetchContent" => BatchRuns(frame) = {}
    /\ FailedFetches # {} =>
          /\ frame.pc = "done" /\ frame.outcome = "FetchError"
          /\ BatchRuns(frame) = {}
          /\ BatchLog(frame) = <<>>

\* the content of the first command of a batch was fetched and that of the
\* second could not be
ContentFetchedBeforeRunWitness ==
    /\ FailedFetches # {}
    /\ frame.k = 2 /\ Len(frame.cmds) >= 2
    /\ frame.pc = "done" /\ frame.outcome = "FetchError"

\* C29: a runCommand response that is no envelope makes runCommands fail: it
\* is the last provider call of the action, which ends with a provider error
\* and calls no setVersion after it.
UnparsedResponseFails ==
    \A j \in DOMAIN calls :
        (calls[j].op = "runCommand" /\ calls[j].resp = "garbage") =>
            /\ j = Len(calls)
            /\ frame.pc = "done" /\ frame.outcome = "ProviderError"

\* ---------------------------------------------------------------------------
\* The scripts of one pair of snapshots over the iteration orders of the maps
\* ---------------------------------------------------------------------------

\* C30: the forward and the reverse script generated for a pair of snapshots
\* are the same for every order in which Compare may iterate the snapshots'
\* maps.
ScriptsSameOnEveryRun ==
    frame.pc = "generated" =>
        \A diff \in Compare(frame.source, frame.target) :
            /\ Generate(diff).UpScript = frame.script.UpScript
            /\ Generate(diff).DownScript = frame.script.DownScript

====
